---- MODULE Spec2Model ----
(***************************************************************************)
(* A model of isatools' ISA-JSON loader (isajson.load), of its structural  *)
(* validator (isajson.validate_isajson) and of the Study.from_dict /       *)
(* Study.to_dict pair of isatools.model.study.                             *)
(*                                                                         *)
(* For load and from_dict the parsed JSON document is a record whose       *)
(* fields carry the JSON keys (the key "@id" is the field id).  A key that *)
(* the document omits has the value NoKey.  Python objects are records     *)
(* that carry the place of the document that created them, so that two     *)
(* objects created from two declarations with the same "@id" are different *)
(* objects.  validate_isajson walks its document without knowing its       *)
(* shape: there the document is a tree of tagged nodes.                    *)
(*                                                                         *)
(* Spec runs load, SpecValidate runs validate_isajson twice on a document, *)
(* SpecStudy runs Study.from_dict and then Study.to_dict, and after that,  *)
(* or after from_dict raised, Study.from_dict of a later document.         *)
(***************************************************************************)
EXTENDS Integers, Sequences, FiniteSets, Bags, TLC

VARIABLES
    isajson,              \* the parsed document handed to load / validate_isajson / from_dict
    pc,                   \* position of the running function
    error,                \* the exception that left the function, NoError while none
    study_index,          \* position of the outer `for study_json in isajson['studies']`
    assay_index,          \* position of `for assay_json in study_json['assays']`
    process_index,        \* position of the first-pass loop over a processSequence
    term_source_dict,
    samples_dict,
    sources_dict,
    categories_dict,
    protocols_dict,
    factors_dict,
    parameters_dict,
    units_dict,
    process_dict,
    data_dict,
    other_materials_dict,
    processes,            \* the Process objects, by reference
    study,                \* the Study object under construction
    assay,                \* the Assay object under construction
    investigation,        \* investigation.studies
    result,               \* what load returned, NoneObj before that
    isa_json,             \* the document tree handed to validate_isajson
    report,               \* the ValidationReport: its entries in the order they were added
    validate_pc,          \* position of validate_isajson in its sequence of checks
    validate_error,       \* the exception that left validate_isajson, NoError while none
    ontology_source_refs, \* the local of that name in validate_isajson
    entry_report,         \* the report as validate handed it to validate_isajson
    run,                  \* 1 during the first validation of the document, 2 during the second
    first_report,         \* the report the first validation ended with
    study_data,           \* the dict handed to Study.from_dict
    from_dict_pc,         \* position of Study.from_dict / Study.to_dict
    self_study,           \* the Study object from_dict fills (self)
    indexes,              \* isatools.model.loader_indexes.loader_states
    to_dict_result        \* what Study.to_dict returned, NoneObj before that

loadVars == <<pc, error, study_index, assay_index, process_index, term_source_dict,
              samples_dict, sources_dict, categories_dict, protocols_dict, factors_dict,
              parameters_dict, units_dict, process_dict, data_dict, other_materials_dict,
              processes, study, assay, investigation, result>>

validateVars == <<isa_json, report, validate_pc, validate_error, ontology_source_refs,
                  entry_report, run, first_report>>

studyVars == <<study_data, from_dict_pc, self_study, indexes, to_dict_result>>

-----------------------------------------------------------------------------
(* Python values *)

NoKey == "<absent>"
NoneObj == [kind |-> "None"]
NoError == [type |-> "none", msg |-> "", key |-> ""]

\* An exception of class type, with its message and the key or identifier it names.
Raise(type, msg, key) == [ok |-> FALSE, err |-> [type |-> type, msg |-> msg, key |-> key]]
Ok(val) == [ok |-> TRUE, val |-> val]

EmptyDict == [k \in {} |-> NoneObj]
DictPut(d, k, v) == [x \in (DOMAIN d) \cup {k} |-> IF x = k THEN v ELSE d[x]]

\* An object built by load: its class, its "@id", and the place of the document
\* (study s, assay a or 0 for the study itself, position i in its section) and the
\* sweep over the document that created it.
Object(kind, id, s, a, i) ==
    [kind |-> kind, id |-> id, s |-> s, a |-> a, i |-> i, sweep |-> "main"]

-----------------------------------------------------------------------------
(* JSON shapes of the document *)

StrValue == [kind |-> "str", termSource |-> ""]
NumValue == [kind |-> "num", termSource |-> ""]
AnnotationValue(ts) == [kind |-> "annotation", termSource |-> ts]

DeclJson(id) == [id |-> id, termSource |-> ""]
FactorJson(id, name) == [id |-> id, factorName |-> name]
ParameterJson(id, name) == [id |-> id, parameterName |-> name]
ValueJson(cat, val, unit) == [category |-> cat, value |-> val, unit |-> unit]
CharacteristicJson(cat, val, unit) == [category |-> cat, value |-> val, unit |-> unit]
MaterialJson(id, chars) == [id |-> id, characteristics |-> chars]
SampleJson(id, chars, fvs) == [id |-> id, characteristics |-> chars, factorValues |-> fvs]
ProtocolJson(id, name, params) == [id |-> id, name |-> name, parameters |-> params]
ProcessJson(id, prot, ins, outs, prev, next) ==
    [id |-> id, executesProtocol |-> prot, inputs |-> ins, outputs |-> outs,
     previousProcess |-> prev, nextProcess |-> next, parameterValues |-> <<>>,
     date |-> "2008-08-15"]

AssayJson ==
    [filename |-> "a_assay.txt", unitCategories |-> <<>>, dataFiles |-> <<>>,
     samples |-> <<>>, characteristicCategories |-> <<>>, otherMaterials |-> <<>>,
     processSequence |-> <<>>]

StudyJson ==
    [identifier |-> "S", filename |-> "s_study.txt",
     characteristicCategories |-> <<>>, unitCategories |-> <<>>,
     protocols |-> <<>>, factors |-> <<>>, sources |-> <<>>, samples |-> <<>>,
     otherMaterials |-> <<>>, processSequence |-> <<>>, assays |-> <<>>]

InvestigationJson(sources, studies) ==
    [ontologySourceReferences |-> sources, studies |-> studies]

-----------------------------------------------------------------------------
(* load: the declarations of a study and of an assay *)

\* `for x_json in section: o = OntologyAnnotation(id_=..., term_source=
\* term_source_dict[...]); pool[o.id] = o`: the loops that declare characteristic
\* categories and units.  val is [dict, objs]: the pool and the objects, in order.
RECURSIVE DeclareAnnotations(_, _, _, _, _, _, _, _)
DeclareAnnotations(decls, i, kind, s, a, sweep, dict, objs) ==
    IF i > Len(decls) THEN Ok([dict |-> dict, objs |-> objs])
    ELSE IF decls[i].termSource \notin DOMAIN term_source_dict
         THEN Raise("KeyError", "", decls[i].termSource)
    ELSE LET o == [Object(kind, decls[i].id, s, a, i) EXCEPT !.sweep = sweep]
                  @@ [term_source |-> term_source_dict[decls[i].termSource]]
         IN  DeclareAnnotations(decls, i + 1, kind, s, a, sweep,
                                DictPut(dict, o.id, o), Append(objs, o))

\* The assays of study s, from assay a on: their characteristicCategories enter dict.
RECURSIVE PrescanAssays(_, _, _, _)
PrescanAssays(assays, s, a, dict) ==
    IF a > Len(assays) THEN Ok(dict)
    ELSE LET r == DeclareAnnotations(assays[a].characteristicCategories, 1, "Category",
                                     s, a, "prescan", dict, <<>>)
         IN  IF ~r.ok THEN r ELSE PrescanAssays(assays, s, a + 1, r.val.dict)

\* PrescanStudies without the sweep: no assay category enters the pool early.
PrescanStudies_skipped(studies, s, dict) == Ok(dict)

RECURSIVE PrescanStudies(_, _, _)
PrescanStudies(studies, s, dict) ==
    IF s > Len(studies) THEN Ok(dict)
    ELSE LET r == PrescanAssays(studies[s].assays, s, 1, dict)
         IN  IF ~r.ok THEN r ELSE PrescanStudies(studies, s + 1, r.val)

\* The parameters of one protocol enter parameters_dict.
RECURSIVE DeclareParameters(_, _, _, _, _)
DeclareParameters(params, i, s, p, dict) ==
    IF i > Len(params) THEN dict
    ELSE DeclareParameters(params, i + 1, s, p,
                           DictPut(dict, params[i].id,
                                   Object("ProtocolParameter", params[i].id, s, p, i)))

\* val is [protocols, parameters, objs].
RECURSIVE DeclareProtocols(_, _, _, _, _, _)
DeclareProtocols(prots, i, s, pdict, paramdict, objs) ==
    IF i > Len(prots) THEN [protocols |-> pdict, parameters |-> paramdict, objs |-> objs]
    ELSE LET o == Object("Protocol", prots[i].id, s, 0, i)
         IN  DeclareProtocols(prots, i + 1, s, DictPut(pdict, o.id, o),
                              DeclareParameters(prots[i].parameters, 1, s, i, paramdict),
                              Append(objs, o))

RECURSIVE DeclareFactors(_, _, _, _, _)
DeclareFactors(factors, i, s, dict, objs) ==
    IF i > Len(factors) THEN [dict |-> dict, objs |-> objs]
    ELSE LET o == Object("StudyFactor", factors[i].id, s, 0, i)
         IN  DeclareFactors(factors, i + 1, s, DictPut(dict, o.id, o), Append(objs, o))

-----------------------------------------------------------------------------
(* load: sources, samples and the other materials of an assay *)

\* One characteristic of a source or of a sample.
LoadCharacteristic(c, cats, units) ==
    IF c.category \notin DOMAIN cats THEN Raise("KeyError", "", c.category)
    ELSE IF c.value.kind = "annotation"
         THEN IF c.value.termSource \notin DOMAIN term_source_dict
              THEN Raise("IOError", "Can't create value as annotation", "")
              ELSE Ok([category |-> cats[c.category], value |-> c.value, unit |-> NoneObj])
    ELSE IF c.value.kind = "num"
         THEN IF c.unit = NoKey \/ c.unit \notin DOMAIN units
              THEN Raise("IOError", "Can't create unit annotation", "")
              ELSE Ok([category |-> cats[c.category], value |-> c.value,
                       unit |-> units[c.unit]])
    ELSE IF c.value.kind # "str"
         THEN Raise("IOError", "Unexpected type in characteristic value", "")
    ELSE Ok([category |-> cats[c.category], value |-> c.value, unit |-> NoneObj])

RECURSIVE LoadCharacteristics(_, _, _, _, _)
LoadCharacteristics(chars, i, cats, units, acc) ==
    IF i > Len(chars) THEN Ok(acc)
    ELSE LET r == LoadCharacteristic(chars[i], cats, units)
         IN  IF ~r.ok THEN r
             ELSE LoadCharacteristics(chars, i + 1, cats, units, Append(acc, r.val))

\* One factor value of a sample: the annotation form first, the scalar form in
\* the `except TypeError` branch.
LoadFactorValue(fv, factors, units) ==
    IF fv.category \notin DOMAIN factors THEN Raise("KeyError", "", fv.category)
    ELSE IF fv.value.kind = "annotation"
         THEN IF fv.value.termSource \notin DOMAIN term_source_dict
              THEN Raise("KeyError", "", fv.value.termSource)
              ELSE Ok([factor_name |-> factors[fv.category], value |-> fv.value,
                       unit |-> NoneObj])
    ELSE IF fv.unit = NoKey \/ fv.unit \notin DOMAIN units
         THEN Raise("KeyError", "", fv.unit)
    ELSE Ok([factor_name |-> factors[fv.category], value |-> fv.value,
             unit |-> units[fv.unit]])

RECURSIVE LoadFactorValues(_, _, _, _, _)
LoadFactorValues(fvs, i, factors, units, acc) ==
    IF i > Len(fvs) THEN Ok(acc)
    ELSE LET r == LoadFactorValue(fvs[i], factors, units)
         IN  IF ~r.ok THEN r
             ELSE LoadFactorValues(fvs, i + 1, factors, units, Append(acc, r.val))

MaterialObject(kind, id, s, a, i, chars, fvs) ==
    [kind |-> kind, id |-> id, s |-> s, a |-> a, i |-> i, sweep |-> "main",
     characteristics |-> chars, factor_values |-> fvs]

\* val is [dict, objs].
RECURSIVE LoadSources(_, _, _, _, _)
LoadSources(srcs, i, s, dict, objs) ==
    IF i > Len(srcs) THEN Ok([dict |-> dict, objs |-> objs])
    ELSE LET r == LoadCharacteristics(srcs[i].characteristics, 1, categories_dict,
                                      units_dict, <<>>)
         IN  IF ~r.ok THEN r
             ELSE LET o == MaterialObject("Source", srcs[i].id, s, 0, i, r.val, <<>>)
                  IN  LoadSources(srcs, i + 1, s, DictPut(dict, o.id, o), Append(objs, o))

RECURSIVE LoadSamples(_, _, _, _, _)
LoadSamples(smps, i, s, dict, objs) ==
    IF i > Len(smps) THEN Ok([dict |-> dict, objs |-> objs])
    ELSE LET r == LoadCharacteristics(smps[i].characteristics, 1, categories_dict,
                                      units_dict, <<>>)
             f == LoadFactorValues(smps[i].factorValues, 1, factors_dict, units_dict, <<>>)
         IN  IF ~r.ok THEN r
             ELSE IF ~f.ok THEN f
             ELSE LET o == MaterialObject("Sample", smps[i].id, s, 0, i, r.val, f.val)
                  IN  LoadSamples(smps, i + 1, s, DictPut(dict, o.id, o), Append(objs, o))

\* One characteristic of an other material of an assay: the value is read as an
\* annotation, whatever it is.
LoadMaterialCharacteristic(c, cats) ==
    IF c.category \notin DOMAIN cats THEN Raise("KeyError", "", c.category)
    ELSE IF c.value.kind # "annotation" THEN Raise("TypeError", "value is not subscriptable", "")
    ELSE IF c.value.termSource \notin DOMAIN term_source_dict
         THEN Raise("KeyError", "", c.value.termSource)
    ELSE Ok([category |-> cats[c.category], value |-> c.value, unit |-> NoneObj])

RECURSIVE LoadMaterialCharacteristics(_, _, _, _)
LoadMaterialCharacteristics(chars, i, cats, acc) ==
    IF i > Len(chars) THEN Ok(acc)
    ELSE LET r == LoadMaterialCharacteristic(chars[i], cats)
         IN  IF ~r.ok THEN r
             ELSE LoadMaterialCharacteristics(chars, i + 1, cats, Append(acc, r.val))

RECURSIVE LoadOtherMaterials(_, _, _, _, _, _, _)
LoadOtherMaterials(mats, i, s, a, cats, dict, objs) ==
    IF i > Len(mats) THEN Ok([dict |-> dict, objs |-> objs])
    ELSE LET r == LoadMaterialCharacteristics(mats[i].characteristics, 1, cats, <<>>)
         IN  IF ~r.ok THEN r
             ELSE LET o == MaterialObject("Material", mats[i].id, s, a, i, r.val, <<>>)
                  IN  LoadOtherMaterials(mats, i + 1, s, a, cats,
                                         DictPut(dict, o.id, o), Append(objs, o))

RECURSIVE LoadDataFiles(_, _, _, _, _, _)
LoadDataFiles(files, i, s, a, dict, objs) ==
    IF i > Len(files) THEN [dict |-> dict, objs |-> objs]
    ELSE LET o == Object("DataFile", files[i], s, a, i)
         IN  LoadDataFiles(files, i + 1, s, a, DictPut(dict, o.id, o), Append(objs, o))

\* `sample = samples_dict[sample_json['@id']]` for the samples an assay lists.
RECURSIVE LoadAssaySamples(_, _, _)
LoadAssaySamples(refs, i, acc) ==
    IF i > Len(refs) THEN Ok(acc)
    ELSE IF refs[i] \notin DOMAIN samples_dict THEN Raise("KeyError", "", refs[i])
    ELSE LoadAssaySamples(refs, i + 1, Append(acc, samples_dict[refs[i]]))

-----------------------------------------------------------------------------
(* load: processes *)

Lookup(dict, id, default) == IF id \in DOMAIN dict THEN dict[id] ELSE default

\* `try: x = sources_dict[id] except KeyError: pass finally: try: x = samples_dict[id]
\* except KeyError: pass`: every pool is consulted, a later hit replaces an earlier.
ResolveStudyNode(id) ==
    Lookup(samples_dict, id, Lookup(sources_dict, id, NoneObj))

ResolveAssayNode(id) ==
    Lookup(data_dict, id, Lookup(other_materials_dict, id, Lookup(samples_dict, id, NoneObj)))

\* ResolveStudyNodes without the `if input_ is None: raise IOError` check.
RECURSIVE ResolveStudyNodes_unchecked(_, _, _, _)
ResolveStudyNodes_unchecked(ids, i, what, acc) ==
    IF i > Len(ids) THEN Ok(acc)
    ELSE ResolveStudyNodes_unchecked(ids, i + 1, what, Append(acc, ResolveStudyNode(ids[i])))

RECURSIVE ResolveStudyNodes(_, _, _, _)
ResolveStudyNodes(ids, i, what, acc) ==
    IF i > Len(ids) THEN Ok(acc)
    ELSE IF ResolveStudyNode(ids[i]) = NoneObj
         THEN Raise("IOError", "Could not find node in sources or samples dicts", ids[i])
    ELSE ResolveStudyNodes(ids, i + 1, what, Append(acc, ResolveStudyNode(ids[i])))

RECURSIVE ResolveAssayNodes(_, _, _, _)
ResolveAssayNodes(ids, i, what, acc) ==
    IF i > Len(ids) THEN Ok(acc)
    ELSE IF ResolveAssayNode(ids[i]) = NoneObj
         THEN Raise("IOError", "Could not find node in samples or materials or data dicts",
                    ids[i])
    ELSE ResolveAssayNodes(ids, i + 1, what, Append(acc, ResolveAssayNode(ids[i])))

ArrayDesignRef == "#parameter/Array_Design_REF"

\* One parameter value of a process; in an assay the array-design parameter is
\* kept as an additional property and resolves nothing.
LoadParameterValue(pv, inAssay) ==
    IF inAssay /\ pv.category = ArrayDesignRef
    THEN Ok([category |-> NoneObj, value |-> pv.value, unit |-> NoneObj])
    ELSE IF pv.category \notin DOMAIN parameters_dict THEN Raise("KeyError", "", pv.category)
    ELSE IF pv.value.kind = "num"
         THEN IF pv.unit = NoKey \/ pv.unit \notin DOMAIN units_dict
              THEN Raise("KeyError", "", pv.unit)
              ELSE Ok([category |-> parameters_dict[pv.category], value |-> pv.value,
                       unit |-> units_dict[pv.unit]])
    ELSE IF pv.value.kind = "annotation" /\ pv.value.termSource \notin DOMAIN term_source_dict
         THEN Raise("KeyError", "", pv.value.termSource)
    ELSE Ok([category |-> parameters_dict[pv.category], value |-> pv.value,
             unit |-> NoneObj])

RECURSIVE LoadParameterValues(_, _, _, _)
LoadParameterValues(pvs, i, inAssay, acc) ==
    IF i > Len(pvs) THEN Ok(acc)
    ELSE LET r == LoadParameterValue(pvs[i], inAssay)
         IN  IF ~r.ok THEN r
             ELSE LoadParameterValues(pvs, i + 1, inAssay, Append(acc, r.val))

ProcessFields(id, prot, pvs, ins, outs) ==
    [id |-> id, executes_protocol |-> prot, parameter_values |-> pvs, inputs |-> ins,
     outputs |-> outs, prev_process |-> NoneObj, next_process |-> NoneObj]

\* The first pass over one process of a study: val is the new Process.
LoadStudyProcessObject(pj) ==
    IF pj.executesProtocol \notin DOMAIN protocols_dict
    THEN Raise("KeyError", "", pj.executesProtocol)
    ELSE LET pvs == LoadParameterValues(pj.parameterValues, 1, FALSE, <<>>)
             ins == ResolveStudyNodes(pj.inputs, 1, "input", <<>>)
             outs == ResolveStudyNodes(pj.outputs, 1, "output", <<>>)
         IN  IF ~pvs.ok THEN pvs
             ELSE IF ~ins.ok THEN ins
             ELSE IF ~outs.ok THEN outs
             ELSE Ok(ProcessFields(pj.id, protocols_dict[pj.executesProtocol], pvs.val,
                                   ins.val, outs.val))

\* The first pass over one process of an assay: inputs and outputs come before
\* the parameter values.
LoadAssayProcessObject(pj) ==
    IF pj.executesProtocol \notin DOMAIN protocols_dict
    THEN Raise("KeyError", "", pj.executesProtocol)
    ELSE LET ins == ResolveAssayNodes(pj.inputs, 1, "input", <<>>)
             outs == ResolveAssayNodes(pj.outputs, 1, "output", <<>>)
             pvs == LoadParameterValues(pj.parameterValues, 1, TRUE, <<>>)
         IN  IF ~ins.ok THEN ins
             ELSE IF ~outs.ok THEN outs
             ELSE IF ~pvs.ok THEN pvs
             ELSE Ok(ProcessFields(pj.id, protocols_dict[pj.executesProtocol], pvs.val,
                                   ins.val, outs.val))

\* `try: prev_proc = pj['previousProcess']['@id'];
\*       process_dict[pj['@id']].prev_process = process_dict[prev_proc]
\*  except KeyError: pass` and the same for nextProcess.
LinkProcess(pj, pdict, heap) ==
    LET linked(field, ref, h) ==
            IF ref # NoKey /\ ref \in DOMAIN pdict /\ pj.id \in DOMAIN pdict
            THEN [h EXCEPT ![pdict[pj.id]][field] = pdict[ref]]
            ELSE h
    IN  linked("next_process", pj.nextProcess,
               linked("prev_process", pj.previousProcess, heap))

\* The second pass over a processSequence.
RECURSIVE LinkProcesses(_, _, _, _)
LinkProcesses(pjs, i, pdict, heap) ==
    IF i > Len(pjs) THEN heap
    ELSE LinkProcesses(pjs, i + 1, pdict, LinkProcess(pjs[i], pdict, heap))

-----------------------------------------------------------------------------
(* load._build_assay_graph *)

\* ProcessEdges with the fallback edge prev(P) -> P turned round.
ProcessEdges_reversed(p, heap) ==
    LET f == heap[p]
    IN  (IF Len(f.outputs) > 0
         THEN {<<p, f.outputs[k]>> : k \in {j \in 1..Len(f.outputs) :
                                              f.outputs[j].kind # "DataFile"}}
         ELSE IF f.next_process # NoneObj THEN {<<p, f.next_process>>} ELSE {})
        \cup
        (IF Len(f.inputs) > 0
         THEN {<<f.inputs[k], p>> : k \in 1..Len(f.inputs)}
         ELSE IF f.prev_process # NoneObj THEN {<<p, f.prev_process>>} ELSE {})

\* The edges one process adds to G.
\* ProcessEdges with the edge P -> next(P) added whether or not P has outputs.
ProcessEdges_next_always(p, heap) ==
    LET f == heap[p]
        out == {<<p, f.outputs[k]>> : k \in {j \in 1..Len(f.outputs) :
                                                f.outputs[j].kind # "DataFile"}}
               \cup (IF f.next_process # NoneObj THEN {<<p, f.next_process>>} ELSE {})
        in == IF f.prev_process # NoneObj \/ Len(f.inputs) > 0
              THEN IF Len(f.inputs) > 0
                   THEN {<<f.inputs[k], p>> : k \in 1..Len(f.inputs)}
                   ELSE {<<f.prev_process, p>>}
              ELSE {}
    IN  out \cup in

\* ProcessEdges with the edge prev(P) -> P added whether or not P has inputs.
ProcessEdges_prev_always(p, heap) ==
    LET f == heap[p]
        out == IF f.next_process # NoneObj \/ Len(f.outputs) > 0
               THEN IF Len(f.outputs) > 0
                    THEN {<<p, f.outputs[k]>> : k \in {j \in 1..Len(f.outputs) :
                                                         f.outputs[j].kind # "DataFile"}}
                    ELSE {<<p, f.next_process>>}
               ELSE {}
        in == {<<f.inputs[k], p>> : k \in 1..Len(f.inputs)}
              \cup (IF f.prev_process # NoneObj THEN {<<f.prev_process, p>>} ELSE {})
    IN  out \cup in

ProcessEdges(p, heap) ==
    LET f == heap[p]
        out == IF f.next_process # NoneObj \/ Len(f.outputs) > 0
               THEN IF Len(f.outputs) > 0
                    THEN {<<p, f.outputs[k]>> : k \in {j \in 1..Len(f.outputs) :
                                                         f.outputs[j].kind # "DataFile"}}
                    ELSE {<<p, f.next_process>>}
               ELSE {}
        in == IF f.prev_process # NoneObj \/ Len(f.inputs) > 0
              THEN IF Len(f.inputs) > 0
                   THEN {<<f.inputs[k], p>> : k \in 1..Len(f.inputs)}
                   ELSE {<<f.prev_process, p>>}
              ELSE {}
    IN  out \cup in

_build_assay_graph(process_sequence, heap) ==
    UNION {ProcessEdges(process_sequence[k], heap) : k \in 1..Len(process_sequence)}

-----------------------------------------------------------------------------
(* load: the steps of the function *)

NoGraph == [built |-> FALSE, edges |-> {}]
Graph(edges) == [built |-> TRUE, edges |-> edges]

NewStudy ==
    [characteristic_categories |-> <<>>, protocols |-> <<>>, factors |-> <<>>,
     sources |-> <<>>, samples |-> <<>>, process_sequence |-> <<>>, graph |-> NoGraph,
     assays |-> <<>>]

NewAssay ==
    [data_files |-> <<>>, samples |-> <<>>, other_material |-> <<>>,
     process_sequence |-> <<>>, graph |-> NoGraph]

study_json == isajson.studies[study_index]
assay_json == study_json.assays[assay_index]

\* The locals of load before its first statement.
LoadLocals ==
    /\ error = NoError
    /\ study_index = 1
    /\ assay_index = 1
    /\ process_index = 1
    /\ term_source_dict = EmptyDict
    /\ samples_dict = EmptyDict
    /\ sources_dict = EmptyDict
    /\ categories_dict = EmptyDict
    /\ protocols_dict = EmptyDict
    /\ factors_dict = EmptyDict
    /\ parameters_dict = EmptyDict
    /\ units_dict = EmptyDict
    /\ process_dict = EmptyDict
    /\ data_dict = EmptyDict
    /\ other_materials_dict = EmptyDict
    /\ processes = EmptyDict
    /\ study = NewStudy
    /\ assay = NewAssay
    /\ investigation = <<>>
    /\ result = NoneObj

\* load is entered.
LoadEntry ==
    /\ pc = "ontology_sources"
    /\ LoadLocals

\* load is not called.
LoadIdle ==
    /\ isajson = NoneObj
    /\ pc = "idle"
    /\ LoadLocals

\* validate_isajson is not called.
ValidateIdle ==
    /\ isa_json = NoneObj
    /\ report = <<>>
    /\ validate_pc = "idle"
    /\ validate_error = NoError
    /\ ontology_source_refs = <<>>
    /\ entry_report = <<>>
    /\ run = 1
    /\ first_report = <<>>

\* Study.from_dict is not called.
StudyIdle ==
    /\ study_data = NoneObj
    /\ from_dict_pc = "idle"
    /\ self_study = NoneObj
    /\ indexes = NoneObj
    /\ to_dict_result = NoneObj

\* An exception leaves load: nothing is returned.
Raised(err) ==
    /\ pc' = "raised"
    /\ error' = err

RECURSIVE OntologySources(_, _, _)
OntologySources(refs, i, dict) ==
    IF i > Len(refs) THEN dict
    ELSE OntologySources(refs, i + 1,
                         DictPut(dict, refs[i].name, Object("OntologySource", refs[i].name,
                                                            0, 0, i)))

LoadOntologySources ==
    /\ pc = "ontology_sources"
    /\ UNCHANGED <<validateVars, studyVars>>
    /\ term_source_dict' =
           OntologySources(isajson.ontologySourceReferences, 1, DictPut(EmptyDict, "", NoneObj))
    /\ pc' = "prescan"
    /\ UNCHANGED <<isajson, error, study_index, assay_index, process_index, samples_dict,
                   sources_dict, categories_dict, protocols_dict, factors_dict,
                   parameters_dict, units_dict, process_dict, data_dict,
                   other_materials_dict, processes, study, assay, investigation, result>>

LoadAssayCategories ==
    /\ pc = "prescan"
    /\ UNCHANGED <<validateVars, studyVars>>
    /\ LET r == PrescanStudies(isajson.studies, 1, categories_dict)
       IN  IF r.ok
           THEN /\ categories_dict' = r.val
                /\ pc' = IF Len(isajson.studies) > 0 THEN "study_declarations" ELSE "return"
                /\ error' = error
           ELSE /\ Raised(r.err)
                /\ UNCHANGED categories_dict
    /\ UNCHANGED <<isajson, study_index, assay_index, process_index, term_source_dict,
                   samples_dict, sources_dict, protocols_dict, factors_dict,
                   parameters_dict, units_dict, process_dict, data_dict,
                   other_materials_dict, processes, study, assay, investigation, result>>

LoadStudyDeclarations ==
    /\ pc = "study_declarations"
    /\ UNCHANGED <<validateVars, studyVars>>
    /\ LET cats == DeclareAnnotations(study_json.characteristicCategories, 1, "Category",
                                      study_index, 0, "main", categories_dict, <<>>)
           units == DeclareAnnotations(study_json.unitCategories, 1, "Unit",
                                       study_index, 0, "main", units_dict, <<>>)
           prots == DeclareProtocols(study_json.protocols, 1, study_index, protocols_dict,
                                     parameters_dict, <<>>)
           facts == DeclareFactors(study_json.factors, 1, study_index, factors_dict, <<>>)
       IN  IF ~cats.ok
           THEN /\ Raised(cats.err)
                /\ UNCHANGED <<categories_dict, units_dict, protocols_dict, parameters_dict,
                               factors_dict, study>>
           ELSE IF ~units.ok
           THEN /\ Raised(units.err)
                /\ UNCHANGED <<categories_dict, units_dict, protocols_dict, parameters_dict,
                               factors_dict, study>>
           ELSE /\ categories_dict' = cats.val.dict
                /\ units_dict' = units.val.dict
                /\ protocols_dict' = prots.protocols
                /\ parameters_dict' = prots.parameters
                /\ factors_dict' = facts.dict
                /\ study' = [NewStudy EXCEPT !.characteristic_categories = cats.val.objs,
                                             !.protocols = prots.objs,
                                             !.factors = facts.objs]
                /\ pc' = "study_materials"
                /\ error' = error
    /\ UNCHANGED <<isajson, study_index, assay_index, process_index, term_source_dict,
                   samples_dict, sources_dict, process_dict, data_dict,
                   other_materials_dict, processes, assay, investigation, result>>

LoadStudyMaterials ==
    /\ pc = "study_materials"
    /\ UNCHANGED <<validateVars, studyVars>>
    /\ LET srcs == LoadSources(study_json.sources, 1, study_index, sources_dict, <<>>)
           smps == LoadSamples(study_json.samples, 1, study_index, samples_dict, <<>>)
       IN  IF ~srcs.ok
           THEN /\ Raised(srcs.err)
                /\ UNCHANGED <<sources_dict, samples_dict, study, process_index>>
           ELSE IF ~smps.ok
           THEN /\ Raised(smps.err)
                /\ UNCHANGED <<sources_dict, samples_dict, study, process_index>>
           ELSE /\ sources_dict' = srcs.val.dict
                /\ samples_dict' = smps.val.dict
                /\ study' = [study EXCEPT !.sources = srcs.val.objs,
                                          !.samples = smps.val.objs]
                /\ process_index' = 1
                /\ pc' = "study_process"
                /\ error' = error
    /\ UNCHANGED <<isajson, study_index, assay_index, term_source_dict, categories_dict,
                   protocols_dict, factors_dict, parameters_dict, units_dict, process_dict,
                   data_dict, other_materials_dict, processes, assay, investigation,
                   result>>

\* One turn of `for study_process_json in study_json['processSequence']`.
LoadStudyProcess ==
    /\ pc = "study_process"
    /\ UNCHANGED <<validateVars, studyVars>>
    /\ process_index <= Len(study_json.processSequence)
    /\ LET pj == study_json.processSequence[process_index]
           r == LoadStudyProcessObject(pj)
           p == Object("Process", pj.id, study_index, 0, process_index)
       IN  IF ~r.ok
           THEN /\ Raised(r.err)
                /\ UNCHANGED <<processes, process_dict, study, process_index>>
           ELSE /\ processes' = DictPut(processes, p, r.val)
                /\ process_dict' = DictPut(process_dict, pj.id, p)
                /\ study' = [study EXCEPT !.process_sequence = Append(@, p)]
                /\ process_index' = process_index + 1
                /\ UNCHANGED <<pc, error>>
    /\ UNCHANGED <<isajson, study_index, assay_index, term_source_dict, samples_dict,
                   sources_dict, categories_dict, protocols_dict, factors_dict,
                   parameters_dict, units_dict, data_dict, other_materials_dict, assay,
                   investigation, result>>

\* The second pass over the study's processes, then study.graph.
LoadStudyLinks ==
    /\ pc = "study_process"
    /\ UNCHANGED <<validateVars, studyVars>>
    /\ process_index > Len(study_json.processSequence)
    /\ LET heap == LinkProcesses(study_json.processSequence, 1, process_dict, processes)
       IN  /\ processes' = heap
           /\ study' = [study EXCEPT
                            !.graph = Graph(_build_assay_graph(study.process_sequence, heap))]
    /\ assay_index' = 1
    /\ pc' = "assay_declarations"
    /\ UNCHANGED <<isajson, error, study_index, process_index, term_source_dict,
                   samples_dict, sources_dict, categories_dict, protocols_dict,
                   factors_dict, parameters_dict, units_dict, process_dict, data_dict,
                   other_materials_dict, assay, investigation, result>>

\* The head of one turn of `for assay_json in study_json['assays']`: units, data
\* files, samples, characteristic categories and other materials of the assay.
LoadAssayDeclarations ==
    /\ pc = "assay_declarations"
    /\ UNCHANGED <<validateVars, studyVars>>
    /\ assay_index <= Len(study_json.assays)
    /\ LET units == DeclareAnnotations(assay_json.unitCategories, 1, "Unit", study_index,
                                       assay_index, "main", units_dict, <<>>)
           data == LoadDataFiles(assay_json.dataFiles, 1, study_index, assay_index,
                                 EmptyDict, <<>>)
           smps == LoadAssaySamples(assay_json.samples, 1, <<>>)
           cats == DeclareAnnotations(assay_json.characteristicCategories, 1, "Category",
                                      study_index, assay_index, "main", categories_dict,
                                      <<>>)
           mats == LoadOtherMaterials(assay_json.otherMaterials, 1, study_index,
                                      assay_index, cats.val.dict, EmptyDict, <<>>)
           failure == IF ~units.ok THEN units
                      ELSE IF ~smps.ok THEN smps
                      ELSE IF ~cats.ok THEN cats
                      ELSE IF ~mats.ok THEN mats
                      ELSE Ok(TRUE)
       IN  IF ~failure.ok
           THEN /\ Raised(failure.err)
                /\ UNCHANGED <<units_dict, data_dict, categories_dict, other_materials_dict,
                               study, assay, process_index>>
           ELSE /\ units_dict' = units.val.dict
                /\ data_dict' = data.dict
                /\ categories_dict' = cats.val.dict
                /\ other_materials_dict' = mats.val.dict
                /\ study' = [study EXCEPT
                                 !.characteristic_categories = @ \o cats.val.objs]
                /\ assay' = [NewAssay EXCEPT !.data_files = data.objs,
                                             !.samples = smps.val,
                                             !.other_material = mats.val.objs]
                /\ process_index' = 1
                /\ pc' = "assay_process"
                /\ error' = error
    /\ UNCHANGED <<isajson, study_index, assay_index, term_source_dict, samples_dict,
                   sources_dict, protocols_dict, factors_dict, parameters_dict,
                   process_dict, processes, investigation, result>>

\* One turn of `for assay_process_json in assay_json['processSequence']`: the
\* process is built, then (inside the same turn) the second pass runs over the
\* whole processSequence of the assay and assay.graph is built.
LoadAssayProcess ==
    /\ pc = "assay_process"
    /\ UNCHANGED <<validateVars, studyVars>>
    /\ process_index <= Len(assay_json.processSequence)
    /\ LET pj == assay_json.processSequence[process_index]
           r == LoadAssayProcessObject(pj)
           p == Object("Process", pj.id, study_index, assay_index, process_index)
           pdict == DictPut(process_dict, pj.id, p)
           heap == LinkProcesses(assay_json.processSequence, 1, pdict,
                                 DictPut(processes, p, r.val))
           sequence == Append(assay.process_sequence, p)
       IN  IF ~r.ok
           THEN /\ Raised(r.err)
                /\ UNCHANGED <<processes, process_dict, assay, process_index>>
           ELSE /\ processes' = heap
                /\ process_dict' = pdict
                /\ assay' = [assay EXCEPT !.process_sequence = sequence,
                                          !.graph = Graph(_build_assay_graph(sequence, heap))]
                /\ process_index' = process_index + 1
                /\ UNCHANGED <<pc, error>>
    /\ UNCHANGED <<isajson, study_index, assay_index, term_source_dict, samples_dict,
                   sources_dict, categories_dict, protocols_dict, factors_dict,
                   parameters_dict, units_dict, data_dict, other_materials_dict, study,
                   investigation, result>>

\* `study.assays.append(assay)`
LoadAssayEnd ==
    /\ pc = "assay_process"
    /\ UNCHANGED <<validateVars, studyVars>>
    /\ process_index > Len(assay_json.processSequence)
    /\ study' = [study EXCEPT !.assays = Append(@, assay)]
    /\ assay_index' = assay_index + 1
    /\ pc' = "assay_declarations"
    /\ UNCHANGED <<isajson, error, study_index, process_index, term_source_dict,
                   samples_dict, sources_dict, categories_dict, protocols_dict,
                   factors_dict, parameters_dict, units_dict, process_dict, data_dict,
                   other_materials_dict, processes, assay, investigation, result>>

\* `investigation.studies.append(study)`
LoadStudyEnd ==
    /\ pc = "assay_declarations"
    /\ UNCHANGED <<validateVars, studyVars>>
    /\ assay_index > Len(study_json.assays)
    /\ investigation' = Append(investigation, study)
    /\ IF study_index < Len(isajson.studies)
       THEN /\ study_index' = study_index + 1
            /\ pc' = "study_declarations"
       ELSE /\ study_index' = study_index
            /\ pc' = "return"
    /\ UNCHANGED <<isajson, error, assay_index, process_index, term_source_dict,
                   samples_dict, sources_dict, categories_dict, protocols_dict,
                   factors_dict, parameters_dict, units_dict, process_dict, data_dict,
                   other_materials_dict, processes, study, assay, result>>

\* `return investigation`
LoadReturn ==
    /\ pc = "return"
    /\ UNCHANGED <<validateVars, studyVars>>
    /\ result' = [kind |-> "Investigation", studies |-> investigation]
    /\ pc' = "returned"
    /\ UNCHANGED <<isajson, error, study_index, assay_index, process_index,
                   term_source_dict, samples_dict, sources_dict, categories_dict,
                   protocols_dict, factors_dict, parameters_dict, units_dict, process_dict,
                   data_dict, other_materials_dict, processes, study, assay, investigation>>

NextLoad ==
    \/ LoadOntologySources
    \/ LoadAssayCategories
    \/ LoadStudyDeclarations
    \/ LoadStudyMaterials
    \/ LoadStudyProcess
    \/ LoadStudyLinks
    \/ LoadAssayDeclarations
    \/ LoadAssayProcess
    \/ LoadAssayEnd
    \/ LoadStudyEnd
    \/ LoadReturn

-----------------------------------------------------------------------------
(* The documents load is run on *)

MaxChain == 3

Protocol1 == ProtocolJson("#protocol/1", "extraction", <<ParameterJson("#parameter/1", "volume")>>)

ProcessId(i) == <<"#process/1", "#process/2", "#process/3", "#process/4", "#process/5">>[i]

\* Process i of a chain of n processes, linked by nextProcess, by previousProcess
\* or by both.
ChainProcess(i, n, style) ==
    ProcessJson(ProcessId(i), "#protocol/1", <<>>, <<>>,
                IF style \in {"prev", "both"} /\ i > 1 THEN ProcessId(i - 1) ELSE NoKey,
                IF style \in {"next", "both"} /\ i < n THEN ProcessId(i + 1) ELSE NoKey)

\* The chain, listed in chain order or in the reverse of it.
ChainSequence(n, style, reversed) ==
    [k \in 1..n |-> ChainProcess(IF reversed THEN n + 1 - k ELSE k, n, style)]

ChainSequences ==
    {ChainSequence(n, style, reversed) :
        n \in 1..MaxChain, style \in {"next", "prev", "both"}, reversed \in BOOLEAN}

\* A study, or an assay, or both, holding a chain of processes.
ChainDocuments ==
    {InvestigationJson(<<>>, <<[StudyJson EXCEPT
            !.protocols = <<Protocol1>>,
            !.processSequence = sp,
            !.assays = <<[AssayJson EXCEPT !.processSequence = ap]>>]>>) :
        sp \in ChainSequences \cup {<<>>}, ap \in ChainSequences \cup {<<>>}}

NodeIds == {"#material/x", "#material/y"}
NodeLists == {<<>>} \cup {<<n>> : n \in NodeIds}
Materials(ids) == [k \in 1..Len(ids) |-> MaterialJson(ids[k], <<>>)]
Samples(ids) == [k \in 1..Len(ids) |-> SampleJson(ids[k], <<>>, <<>>)]

\* A study process and an assay process with inputs and outputs, over pools of
\* sources, samples, other materials and data files that share identifiers.
NodeDocuments ==
    {InvestigationJson(<<>>, <<[StudyJson EXCEPT
            !.protocols = <<Protocol1>>,
            !.sources = Materials(srcs),
            !.samples = Samples(smps),
            !.processSequence = <<ProcessJson("#process/1", "#protocol/1", sin, sout,
                                              NoKey, NoKey)>>,
            !.assays = <<[AssayJson EXCEPT
                !.otherMaterials = Materials(mats),
                !.dataFiles = data,
                !.processSequence = <<ProcessJson("#process/2", "#protocol/1", ain, aout,
                                                  NoKey, NoKey)>>]>>]>>) :
        srcs \in NodeLists, smps \in NodeLists, mats \in NodeLists, data \in NodeLists,
        sin \in NodeLists, sout \in {<<>>, <<"#material/x">>},
        ain \in NodeLists \ {<<>>}, aout \in {<<>>, <<"#material/x">>}}

Characteristics(kinds, units) ==
    {<<>>} \cup {<<CharacteristicJson("#category/1", [kind |-> k, termSource |-> ""], u)>> :
                    k \in kinds, u \in units}

ParameterValues ==
    {<<>>} \cup {<<ValueJson("#parameter/1", NumValue, u)>> : u \in {NoKey, "#unit/1"}}

UnitLists == {<<>>, <<DeclJson("#unit/1")>>}

\* A study that may declare a unit, with a source that carries a characteristic;
\* a first assay that may declare the same unit, with a material that carries a
\* characteristic; a second assay whose process may carry a numeric parameter value.
UnitStudies ==
    {[StudyJson EXCEPT
        !.characteristicCategories = <<DeclJson("#category/1")>>,
        !.unitCategories = su,
        !.protocols = <<Protocol1>>,
        !.sources = <<MaterialJson("#material/x", sc)>>,
        !.processSequence = <<ProcessJson("#process/1", "#protocol/1", <<"#material/x">>,
                                          <<>>, NoKey, NoKey)>>,
        !.assays = <<[AssayJson EXCEPT
                         !.unitCategories = au,
                         !.otherMaterials = <<MaterialJson("#material/y", mc)>>],
                     [AssayJson EXCEPT
                         !.processSequence =
                             <<[ProcessJson("#process/2", "#protocol/1", <<>>, <<>>, NoKey,
                                            NoKey) EXCEPT !.parameterValues = pv]>>]>>] :
        su \in UnitLists, au \in UnitLists,
        sc \in Characteristics({"str", "num", "annotation"}, {NoKey, "#unit/1"}),
        mc \in Characteristics({"str", "num", "annotation"}, {NoKey, "#unit/1"}),
        pv \in ParameterValues}

\* A later study that declares no unit and whose source carries a numeric
\* characteristic.
LaterStudies ==
    {[StudyJson EXCEPT
        !.identifier = "S2",
        !.characteristicCategories = <<DeclJson("#category/1")>>,
        !.sources = <<MaterialJson("#material/z",
                                   <<CharacteristicJson("#category/1", NumValue, u)>>)>>] :
        u \in {"#unit/1"}}

UnitDocuments ==
    {InvestigationJson(<<>>, <<st>>) : st \in UnitStudies}
    \cup {InvestigationJson(<<>>, <<st, later>>) : st \in UnitStudies, later \in LaterStudies}

\* One or two processes without inputs and outputs whose previousProcess and
\* nextProcess pointers name themselves, each other, or no process at all.
LinkPointers == {NoKey, ProcessId(1), ProcessId(2), "#process/none"}

LinkSequences ==
    {<<ProcessJson(ProcessId(1), "#protocol/1", <<>>, <<>>, p1, n1)>> :
        p1 \in LinkPointers, n1 \in LinkPointers}
    \cup {<<ProcessJson(ProcessId(1), "#protocol/1", <<>>, <<>>, p1, n1),
             ProcessJson(ProcessId(2), "#protocol/1", <<>>, <<>>, p2, n2)>> :
             p1 \in LinkPointers, n1 \in LinkPointers,
             p2 \in LinkPointers, n2 \in LinkPointers}

LinkDocuments ==
    {InvestigationJson(<<>>, <<[StudyJson EXCEPT
            !.protocols = <<Protocol1>>,
            !.processSequence = sp]>>) : sp \in LinkSequences}
    \cup {InvestigationJson(<<>>, <<[StudyJson EXCEPT
            !.protocols = <<Protocol1>>,
            !.assays = <<[AssayJson EXCEPT !.processSequence = ap]>>]>>) :
            ap \in LinkSequences}

\* A study that declares protocols, sources and processes, some of them twice
\* under one identifier.
DuplicateDocuments ==
    {InvestigationJson(<<>>, <<[StudyJson EXCEPT
            !.protocols = prots,
            !.sources = Materials(srcs),
            !.processSequence = sp]>>) :
        prots \in {<<Protocol1>>, <<Protocol1, Protocol1>>},
        srcs \in {<<"#material/x">>, <<"#material/x", "#material/x">>,
                  <<"#material/x", "#material/y">>},
        sp \in {<<ProcessJson(ProcessId(1), "#protocol/1", <<"#material/x">>, <<>>,
                              NoKey, NoKey)>>,
                <<ProcessJson(ProcessId(1), "#protocol/1", <<"#material/x">>, <<>>,
                              NoKey, NoKey),
                  ProcessJson(ProcessId(1), "#protocol/1", <<>>, <<>>, NoKey, NoKey)>>}}

\* An assay of two processes over one material and one data file: the first
\* may name the second as its nextProcess, the second the first as its
\* previousProcess, and each may list the material or the data file among its
\* inputs and outputs.
FlowInputs == {<<>>, <<"#material/x">>, <<"#data/f">>}
FlowOutputs == {<<>>, <<"#material/x">>, <<"#data/f">>, <<"#material/x", "#data/f">>}

FlowDocuments ==
    {InvestigationJson(<<>>, <<[StudyJson EXCEPT
            !.protocols = <<Protocol1>>,
            !.assays = <<[AssayJson EXCEPT
                !.otherMaterials = Materials(<<"#material/x">>),
                !.dataFiles = <<"#data/f">>,
                !.processSequence =
                    <<ProcessJson(ProcessId(1), "#protocol/1", in1, out1, NoKey, next1),
                      ProcessJson(ProcessId(2), "#protocol/1", in2, out2, prev2,
                                  NoKey)>>]>>]>>) :
        in1 \in FlowInputs, out1 \in FlowOutputs, next1 \in {NoKey, ProcessId(2)},
        in2 \in FlowInputs, out2 \in {<<>>, <<"#material/x">>},
        prev2 \in {NoKey, ProcessId(1)}}

\* A study whose source and sample carry a characteristic of a category that
\* the study, its assay, both or neither declare.
CategoryLists ==
    {<<>>, <<DeclJson("#category/1")>>, <<DeclJson("#category/2"), DeclJson("#category/1")>>}

CategoryDocuments ==
    {InvestigationJson(<<>>, <<[StudyJson EXCEPT
            !.characteristicCategories = sc,
            !.sources = <<MaterialJson("#material/x",
                             <<CharacteristicJson("#category/1", StrValue, NoKey)>>)>>,
            !.samples = <<SampleJson("#material/y", chars, <<>>)>>,
            !.assays = <<[AssayJson EXCEPT !.characteristicCategories = ac]>>]>>) :
        sc \in {<<>>, <<DeclJson("#category/1")>>},
        ac \in CategoryLists,
        chars \in {<<>>, <<CharacteristicJson("#category/1", AnnotationValue(""), NoKey)>>}}

\* A study that declares a factor and maybe a unit, with a sample that carries
\* one factor value: free text, a number or an annotation, with or without unit.
FactorDocuments ==
    {InvestigationJson(<<>>, <<[StudyJson EXCEPT
            !.unitCategories = units,
            !.factors = <<FactorJson("#factor/1", "dose")>>,
            !.samples = <<SampleJson("#material/y", <<>>,
                                     <<ValueJson("#factor/1", value, unit)>>)>>]>>) :
        units \in UnitLists,
        value \in {StrValue, NumValue, AnnotationValue("")},
        unit \in {NoKey, "#unit/1"}}

\* Ontology sources, one of them maybe without a name, and a study and an
\* assay whose categories and units name a term source or the empty string.
OntologySourceLists ==
    {<<>>, <<[name |-> "OBI"]>>, <<[name |-> ""]>>, <<[name |-> "OBI"], [name |-> ""]>>}

SourceDocuments ==
    {InvestigationJson(sources, <<[StudyJson EXCEPT
            !.characteristicCategories = <<[DeclJson("#category/1") EXCEPT !.termSource = cs]>>,
            !.unitCategories = <<[DeclJson("#unit/1") EXCEPT !.termSource = us]>>,
            !.assays = <<[AssayJson EXCEPT
                !.characteristicCategories = <<DeclJson("#category/2")>>]>>]>>) :
        sources \in OntologySourceLists, cs \in {"", "OBI"}, us \in {"", "OBI", "EFO"}}

LoadDocuments ==
    ChainDocuments \cup NodeDocuments \cup UnitDocuments \cup LinkDocuments
    \cup DuplicateDocuments \cup FlowDocuments \cup CategoryDocuments
    \cup FactorDocuments \cup SourceDocuments

Init ==
    /\ isajson \in LoadDocuments
    /\ LoadEntry
    /\ ValidateIdle
    /\ StudyIdle

vars == <<isajson, pc, error, study_index, assay_index, process_index, term_source_dict,
          samples_dict, sources_dict, categories_dict, protocols_dict, factors_dict,
          parameters_dict, units_dict, process_dict, data_dict, other_materials_dict,
          processes, study, assay, investigation, result, isa_json, report, validate_pc,
          validate_error, ontology_source_refs, entry_report, run, first_report, study_data,
          from_dict_pc, self_study, indexes, to_dict_result>>

Next == NextLoad

Spec == Init /\ [][Next]_vars

-----------------------------------------------------------------------------
(* Workflow graphs of linear chains *)

Handle(pj, s, a, i) == Object("Process", pj.id, s, a, i)

\* The pairs (i, j) of positions of a processSequence such that process i names
\* process j as its nextProcess, or process j names process i as its previousProcess.
ChainLinks(pjs) ==
    {l \in (1..Len(pjs)) \X (1..Len(pjs)) :
        \/ pjs[l[1]].nextProcess = pjs[l[2]].id
        \/ pjs[l[2]].previousProcess = pjs[l[1]].id}

\* N >= 1 processes with distinct identifiers, no inputs and no outputs, whose
\* previousProcess/nextProcess pointers all name processes of the sequence and
\* link them into one chain order[1] -> order[2] -> ... -> order[N].
IsLinearChain(pjs) ==
    /\ Len(pjs) >= 1
    /\ \A i, j \in 1..Len(pjs) : pjs[i].id = pjs[j].id => i = j
    /\ \A i \in 1..Len(pjs) :
          /\ pjs[i].inputs = <<>> /\ pjs[i].outputs = <<>>
          /\ \A ref \in {pjs[i].previousProcess, pjs[i].nextProcess} \ {NoKey} :
                \E j \in 1..Len(pjs) : pjs[j].id = ref
    /\ \E order \in Permutations(1..Len(pjs)) :
          ChainLinks(pjs) = {<<order[k], order[k + 1]>> : k \in 1..(Len(pjs) - 1)}

\* The edges the chain order asks for, over the Process objects of scope (s, a).
ChainEdges(pjs, s, a) ==
    {<<Handle(pjs[l[1]], s, a, l[1]), Handle(pjs[l[2]], s, a, l[2])>> : l \in ChainLinks(pjs)}

GraphIsChain(graph, pjs, s, a) ==
    /\ graph.built
    /\ graph.edges = ChainEdges(pjs, s, a)
    /\ Cardinality(graph.edges) = Len(pjs) - 1

\* C1: when load returns, the workflow graph of every study and of every assay
\* whose processSequence is a single linear chain of N >= 1 processes without
\* inputs and outputs has exactly N-1 edges, each from a process to its
\* immediate successor in the chain.
C1_LinearChainGraph ==
    pc = "returned" =>
        \A s \in 1..Len(isajson.studies) :
            /\ IsLinearChain(isajson.studies[s].processSequence) =>
                   GraphIsChain(result.studies[s].graph,
                                isajson.studies[s].processSequence, s, 0)
            /\ \A a \in 1..Len(isajson.studies[s].assays) :
                   IsLinearChain(isajson.studies[s].assays[a].processSequence) =>
                       GraphIsChain(result.studies[s].assays[a].graph,
                                    isajson.studies[s].assays[a].processSequence, s, a)

\* A returned load whose assay holds a chain of three or more processes listed
\* against the chain order and linked by nextProcess only, over a study that
\* used the same process identifiers.
C1_Witness ==
    /\ pc = "returned"
    /\ \E s \in 1..Len(isajson.studies) : \E a \in 1..Len(isajson.studies[s].assays) :
          LET pjs == isajson.studies[s].assays[a].processSequence
          IN  /\ Len(pjs) >= 3
              /\ IsLinearChain(pjs)
              /\ pjs[1].nextProcess = NoKey
              /\ \A i \in 1..Len(pjs) : pjs[i].previousProcess = NoKey
              /\ Len(isajson.studies[s].processSequence) >= 3
              /\ Cardinality(result.studies[s].assays[a].graph.edges) = Len(pjs) - 1

-----------------------------------------------------------------------------
(* Resolution of the inputs and outputs of a process *)

\* The first pool, in the order given, that holds id; NoneObj when none does.
RECURSIVE FirstHit(_, _, _)
FirstHit(pools, k, id) ==
    IF k > Len(pools) THEN NoneObj
    ELSE IF id \in DOMAIN pools[k] THEN pools[k][id]
    ELSE FirstHit(pools, k + 1, id)

NodesOf(p) == processes[p].inputs \o processes[p].outputs

\* C3: every input and output attached to a process of the study, or of the
\* assay, being loaded is the entity of the first pool that holds its
\* identifier: Source before Sample for a study process; Sample, then Material,
\* then DataFile for an assay process.
C3_FirstPoolWins ==
    /\ pc = "study_process" =>
          \A k \in 1..Len(study.process_sequence) :
              \A n \in 1..Len(NodesOf(study.process_sequence[k])) :
                  LET node == NodesOf(study.process_sequence[k])[n]
                  IN  node = FirstHit(<<sources_dict, samples_dict>>, 1, node.id)
    /\ pc = "assay_process" =>
          \A k \in 1..Len(assay.process_sequence) :
              \A n \in 1..Len(NodesOf(assay.process_sequence[k])) :
                  LET node == NodesOf(assay.process_sequence[k])[n]
                  IN  node = FirstHit(<<samples_dict, other_materials_dict, data_dict>>, 1,
                                      node.id)

\* The identifiers among the inputs and outputs of process JSON pj that none of
\* the pools holds.
UnresolvedNodes(pj, pools) ==
    {id \in {pj.inputs[k] : k \in 1..Len(pj.inputs)}
            \cup {pj.outputs[k] : k \in 1..Len(pj.outputs)} :
        \A n \in 1..Len(pools) : id \notin DOMAIN pools[n]}

\* The process the first pass is about to build, whose protocol and parameter
\* values resolve, names a node that no pool of its scope holds.
StudyNodeUnresolved ==
    /\ pc = "study_process"
    /\ process_index <= Len(study_json.processSequence)
    /\ LET pj == study_json.processSequence[process_index]
       IN  /\ pj.executesProtocol \in DOMAIN protocols_dict
           /\ LoadParameterValues(pj.parameterValues, 1, FALSE, <<>>).ok
           /\ UnresolvedNodes(pj, <<sources_dict, samples_dict>>) # {}

AssayNodeUnresolved ==
    /\ pc = "assay_process"
    /\ process_index <= Len(assay_json.processSequence)
    /\ LET pj == assay_json.processSequence[process_index]
       IN  /\ pj.executesProtocol \in DOMAIN protocols_dict
           /\ UnresolvedNodes(pj, <<samples_dict, other_materials_dict, data_dict>>) # {}

-----------------------------------------------------------------------------
(* By-id references and the declarations that are in reach of them *)

Range(seq) == {seq[k] : k \in 1..Len(seq)}

\* The place of the document that declared object o.
Place(o) == <<o.kind, o.s, o.a, o.i>>

\* The places of the declarations with identifier id that are in reach of a
\* reference made in study s (a = 0) or in assay a of study s: a unit is
\* declared by the study or by the assay itself; a characteristic category by
\* the study or by any of its assays; a protocol, a protocol parameter and a
\* factor by the study.
DeclarationsInReach(kind, id, s, a) ==
    LET st == isajson.studies[s]
    IN  CASE kind = "Unit" ->
                 {<<"Unit", s, 0, i>> : i \in {j \in 1..Len(st.unitCategories) :
                                                  st.unitCategories[j].id = id}}
                 \cup (IF a = 0 THEN {}
                       ELSE {<<"Unit", s, a, i>> :
                               i \in {j \in 1..Len(st.assays[a].unitCategories) :
                                         st.assays[a].unitCategories[j].id = id}})
          [] kind = "Category" ->
                 {<<"Category", s, 0, i>> :
                     i \in {j \in 1..Len(st.characteristicCategories) :
                               st.characteristicCategories[j].id = id}}
                 \cup UNION {{<<"Category", s, b, i>> :
                                 i \in {j \in 1..Len(st.assays[b].characteristicCategories) :
                                           st.assays[b].characteristicCategories[j].id = id}} :
                             b \in 1..Len(st.assays)}
          [] kind = "Protocol" ->
                 {<<"Protocol", s, 0, i>> : i \in {j \in 1..Len(st.protocols) :
                                                      st.protocols[j].id = id}}
          [] kind = "ProtocolParameter" ->
                 UNION {{<<"ProtocolParameter", s, p, i>> :
                            i \in {j \in 1..Len(st.protocols[p].parameters) :
                                      st.protocols[p].parameters[j].id = id}} :
                        p \in 1..Len(st.protocols)}
          [] kind = "StudyFactor" ->
                 {<<"StudyFactor", s, 0, i>> : i \in {j \in 1..Len(st.factors) :
                                                         st.factors[j].id = id}}

\* The Study objects built so far and the Assay objects built so far.
StudiesBuilt == Range(investigation) \cup {study}
AssaysBuilt == UNION {Range(st.assays) : st \in StudiesBuilt} \cup {assay}
MaterialsBuilt ==
    UNION {Range(st.sources) \cup Range(st.samples) : st \in StudiesBuilt}
    \cup UNION {Range(as.other_material) : as \in AssaysBuilt}
CharacteristicsBuilt(m) == Range(m.characteristics)

\* The references resolved so far: the object found, and the study and assay
\* (0 for the study itself) of the object that holds the reference.
ResolvedReferences ==
    UNION {{[to |-> processes[p].executes_protocol, s |-> p.s, a |-> p.a]}
           \cup {[to |-> pv.category, s |-> p.s, a |-> p.a] :
                     pv \in Range(processes[p].parameter_values)}
           \cup {[to |-> pv.unit, s |-> p.s, a |-> p.a] :
                     pv \in Range(processes[p].parameter_values)} : p \in DOMAIN processes}
    \cup UNION {{[to |-> c.category, s |-> m.s, a |-> m.a] : c \in Range(m.characteristics)}
                \cup {[to |-> c.unit, s |-> m.s, a |-> m.a] : c \in Range(m.characteristics)}
                \cup {[to |-> f.factor_name, s |-> m.s, a |-> m.a] :
                          f \in Range(m.factor_values)}
                \cup {[to |-> f.unit, s |-> m.s, a |-> m.a] : f \in Range(m.factor_values)} :
                m \in MaterialsBuilt}

\* C2: every by-id reference that load has resolved (protocol of a process,
\* category of a characteristic, factor of a factor value, parameter of a
\* parameter value, unit) has a declaration with its identifier in reach, so a
\* reference without one never survives; and when exactly one declaration is in
\* reach, the object found is the one made from that declaration.
C2_ResolvesInReach ==
    \A r \in ResolvedReferences :
        r.to # NoneObj =>
            LET decls == DeclarationsInReach(r.to.kind, r.to.id, r.s, r.a)
            IN  /\ decls # {}
                /\ Cardinality(decls) = 1 => Place(r.to) \in decls

-----------------------------------------------------------------------------
(* Numeric characteristics and their units *)

AssaysJson(doc) == UNION {Range(st.assays) : st \in Range(doc.studies)}
ProcessesJson(doc) ==
    UNION {Range(st.processSequence) : st \in Range(doc.studies)}
    \cup UNION {Range(as.processSequence) : as \in AssaysJson(doc)}

\* The identifiers declared anywhere in the document, by kind.
UnitIds(doc) ==
    UNION {{u.id : u \in Range(st.unitCategories)} : st \in Range(doc.studies)}
    \cup UNION {{u.id : u \in Range(as.unitCategories)} : as \in AssaysJson(doc)}
CategoryIds(doc) ==
    UNION {{c.id : c \in Range(st.characteristicCategories)} : st \in Range(doc.studies)}
    \cup UNION {{c.id : c \in Range(as.characteristicCategories)} : as \in AssaysJson(doc)}
ProtocolIds(doc) == UNION {{p.id : p \in Range(st.protocols)} : st \in Range(doc.studies)}
ParameterIds(doc) ==
    UNION {UNION {{q.id : q \in Range(p.parameters)} : p \in Range(st.protocols)} :
           st \in Range(doc.studies)}
FactorIds(doc) == UNION {{f.id : f \in Range(st.factors)} : st \in Range(doc.studies)}
SampleIds(doc) == UNION {{m.id : m \in Range(st.samples)} : st \in Range(doc.studies)}
MaterialIds(doc) ==
    UNION {{m.id : m \in Range(st.sources) \cup Range(st.samples)} : st \in Range(doc.studies)}
    \cup UNION {{m.id : m \in Range(as.otherMaterials)} \cup Range(as.dataFiles) :
                as \in AssaysJson(doc)}
TermSourceNames(doc) == {""} \cup {r.name : r \in Range(doc.ontologySourceReferences)}

\* The characteristics of the sources, samples and assay materials of the document.
CharacteristicsJson(doc) ==
    UNION {UNION {Range(m.characteristics) : m \in Range(st.sources) \cup Range(st.samples)} :
           st \in Range(doc.studies)}
    \cup UNION {UNION {Range(m.characteristics) : m \in Range(as.otherMaterials)} :
                as \in AssaysJson(doc)}

\* A numeric value whose unit reference is absent or names no unit that the
\* document declares anywhere.
UnitlessNumeric(c, doc) ==
    c.value.kind = "num" /\ (c.unit = NoKey \/ c.unit \notin UnitIds(doc))

\* Nothing but the unit of a numeric characteristic can be unresolved in the
\* document: every other reference names an identifier that the document
\* declares, and every value is free text, a number or an annotation.
OnlyUnitsAtFault(doc) ==
    /\ \A c \in CharacteristicsJson(doc) :
          /\ c.category \in CategoryIds(doc)
          /\ c.value.kind \in {"str", "num", "annotation"}
          /\ c.value.termSource \in TermSourceNames(doc)
    /\ \A st \in Range(doc.studies) :
          /\ \A d \in Range(st.characteristicCategories) \cup Range(st.unitCategories) :
                d.termSource \in TermSourceNames(doc)
          /\ \A m \in Range(st.samples) : m.factorValues = <<>>
    /\ \A as \in AssaysJson(doc) :
          /\ \A d \in Range(as.characteristicCategories) \cup Range(as.unitCategories) :
                d.termSource \in TermSourceNames(doc)
          /\ Range(as.samples) \subseteq SampleIds(doc)
    /\ \A pj \in ProcessesJson(doc) :
          /\ pj.executesProtocol \in ProtocolIds(doc)
          /\ \A pv \in Range(pj.parameterValues) :
                /\ pv.category \in ParameterIds(doc)
                /\ pv.value.kind = "num" => pv.unit \in UnitIds(doc)
                /\ pv.value.termSource \in TermSourceNames(doc)
          /\ Range(pj.inputs) \cup Range(pj.outputs) \subseteq MaterialIds(doc)

UnresolvedUnit == [type |-> "IOError", msg |-> "Can't create unit annotation", key |-> ""]

\* C6: when load returns, no characteristic of the object graph holds a number
\* without a unit; and a document in which some characteristic of a source,
\* sample or assay material is numeric with an absent or undeclared unit, and
\* in which nothing else is at fault, never loads: load ends with the
\* unresolved-unit error.
C6_NumericNeedsUnit ==
    /\ pc = "returned" =>
          \A m \in MaterialsBuilt : \A c \in Range(m.characteristics) :
              c.value.kind = "num" => c.unit # NoneObj
    /\ (/\ \E c \in CharacteristicsJson(isajson) : UnitlessNumeric(c, isajson)
        /\ OnlyUnitsAtFault(isajson)) =>
          /\ pc # "returned"
          /\ pc = "raised" => error = UnresolvedUnit

-----------------------------------------------------------------------------
(* validate_isajson: the document tree *)

\* validate_isajson walks the parsed JSON without knowing its shape, so its
\* document is a tree of tagged nodes: a dict keeps its keys in document
\* order, as Python's dict does.
Str(s) == [t |-> "str", v |-> s]
List(items) == [t |-> "list", items |-> items]
Dict(pairs) == [t |-> "dict", items |-> pairs]

IsDict(node) == node.t = "dict"
IsList(node) == node.t = "list"
Keys(node) == {node.items[i][1] : i \in DOMAIN node.items}
Values(node) == [i \in DOMAIN node.items |-> node.items[i][2]]
Has(node, key) == key \in Keys(node)
Get(node, key) == node.items[CHOOSE i \in DOMAIN node.items : node.items[i][1] = key][2]
Elems(node) == node.items

\* report.warn / report.error / report.fatal
Entry(level, msg, about, section) ==
    [level |-> level, msg |-> msg, about |-> about, section |-> section]
Warn(msg, about) == Entry("warn", msg, about, "")

RECURSIVE Flatten(_)
Flatten(seqs) ==
    IF seqs = <<>> THEN <<>> ELSE Head(seqs) \o Flatten(Tail(seqs))

Studies(doc) == Elems(Get(doc, "studies"))

\* The schema validator accepts the document.  Of the schema it is kept that
\* a study has no other keys than these.
StudyKeys ==
    {"identifier", "filename", "publicReleaseDate", "submissionDate", "publications",
     "studyDesignDescriptors", "protocols", "factors", "processSequence", "assays"}

Conforms(doc) ==
    /\ IsDict(doc)
    /\ \A i \in DOMAIN Studies(doc) : Keys(Studies(doc)[i]) \subseteq StudyKeys

_check_isa_schemas(doc) ==
    IF Conforms(doc) THEN Ok(doc) ELSE Raise("ValidationError", "schema", "")

_check_filenames(doc) ==
    LET assayWarnings(a) ==
            IF Get(a, "filename").v = "" THEN <<Warn("An assay filename is missing", "")>>
            ELSE <<>>
        studyWarnings(st) ==
            (IF Get(st, "filename").v = "" THEN <<Warn("A study filename is missing", "")>>
             ELSE <<>>)
            \o Flatten([k \in DOMAIN Elems(Get(st, "assays")) |->
                           assayWarnings(Elems(Get(st, "assays"))[k])])
    IN  Flatten([k \in DOMAIN Studies(doc) |-> studyWarnings(Studies(doc)[k])])

\* Returns the list ontology_source_refs and the warnings added.
RECURSIVE OntologySourceRefs(_, _, _, _)
OntologySourceRefs(sources, i, refs, added) ==
    IF i > Len(sources) THEN [refs |-> refs, added |-> added]
    ELSE LET name == Get(sources[i], "name").v
         IN  IF name = ""
             THEN OntologySourceRefs(sources, i + 1, refs,
                      Append(added,
                             Warn("An Ontology Source Reference is missing Term Source Name", "")))
             ELSE OntologySourceRefs(sources, i + 1, Append(refs, name), added)

\* The same loop, had the list started empty.
_check_ontology_sources_from_nothing(doc) ==
    OntologySourceRefs(Elems(Get(doc, "ontologySourceReferences")), 1, <<>>, <<>>)

_check_ontology_sources(doc) ==
    OntologySourceRefs(Elems(Get(doc, "ontologySourceReferences")), 1, <<"">>, <<>>)

ISO8601Dates == {"2008-08-15"}
check_iso8601_date(date) ==
    IF date.v \in ISO8601Dates THEN <<>>
    ELSE <<Warn("Date does not conform to ISO8601 format", date.v)>>

\* An exception leaves a check: the entries it added before that stay in the report.
RaiseAfter(added, type, msg, key) ==
    [ok |-> FALSE, val |-> added, err |-> [type |-> type, msg |-> msg, key |-> key]]

\* process['date'] raises KeyError when the process has no date.
RECURSIVE ProcessDates(_, _, _)
ProcessDates(procs, i, added) ==
    IF i > Len(procs) THEN Ok(added)
    ELSE IF ~Has(procs[i], "date") THEN RaiseAfter(added, "KeyError", "date", "date")
    ELSE ProcessDates(procs, i + 1, added \o check_iso8601_date(Get(procs[i], "date")))

RECURSIVE StudyDates(_, _, _)
StudyDates(studies, i, added) ==
    IF i > Len(studies) THEN Ok(added)
    ELSE LET own == check_iso8601_date(Get(studies[i], "publicReleaseDate"))
                    \o check_iso8601_date(Get(studies[i], "submissionDate"))
             r == ProcessDates(Elems(Get(studies[i], "processSequence")), 1, added \o own)
         IN  IF r.ok THEN StudyDates(studies, i + 1, r.val) ELSE r

_check_date_formats(doc) ==
    StudyDates(Studies(doc), 1,
               check_iso8601_date(Get(doc, "publicReleaseDate"))
               \o check_iso8601_date(Get(doc, "submissionDate")))

IsAnnotation(node) ==
    \/ Keys(node) = {"annotationValue", "termAccession", "termSource"}
    \/ Keys(node) = {"@id", "annotationValue", "termAccession", "termSource"}

\* _check_term_source_refs, were it to stop at a node it has matched.
RECURSIVE _check_term_source_refs_shallow(_, _)
_check_term_source_refs_shallow(node, refs) ==
    IF IsDict(node)
    THEN IF IsAnnotation(node)
         THEN (IF Get(node, "termSource").v \notin Range(refs)
               THEN <<Warn("Annotation references term source that has not been declared",
                           Get(node, "termSource").v)>>
               ELSE <<>>)
         ELSE Flatten([i \in DOMAIN node.items |->
                          _check_term_source_refs_shallow(node.items[i][2], refs)])
    ELSE IF IsList(node)
    THEN Flatten([i \in DOMAIN node.items |->
                     _check_term_source_refs_shallow(node.items[i], refs)])
    ELSE <<>>

\* The walk of _check_term_source_refs: the warnings it adds, in the order of the walk.
RECURSIVE _check_term_source_refs(_, _)
_check_term_source_refs(node, refs) ==
    IF IsDict(node)
    THEN (IF IsAnnotation(node) /\ Get(node, "termSource").v \notin Range(refs)
          THEN <<Warn("Annotation references term source that has not been declared",
                      Get(node, "termSource").v)>>
          ELSE <<>>)
         \o Flatten([i \in DOMAIN node.items |-> _check_term_source_refs(node.items[i][2], refs)])
    ELSE IF IsList(node)
    THEN Flatten([i \in DOMAIN node.items |-> _check_term_source_refs(node.items[i], refs)])
    ELSE <<>>

Publications(doc) ==
    Elems(Get(doc, "publications"))
    \o Flatten([i \in DOMAIN Studies(doc) |-> Elems(Get(Studies(doc)[i], "publications"))])

PubMedIds == {"", "17439666"}
check_pubmed_id(id) ==
    IF id.v \in PubMedIds THEN <<>> ELSE <<Warn("PubMed ID is not valid format", id.v)>>

Dois == {"", "10.1186/jbiol54"}
check_doi(doi) ==
    IF doi.v \in Dois THEN <<>> ELSE <<Warn("DOI is not valid format", doi.v)>>

_check_pubmed_ids(doc) ==
    LET check(pub) == check_pubmed_id(Get(pub, "pubMedID"))
    IN  Flatten([k \in DOMAIN Publications(doc) |-> check(Publications(doc)[k])])

_check_dois(doc) ==
    LET check(pub) == check_doi(Get(pub, "doi"))
    IN  Flatten([k \in DOMAIN Publications(doc) |-> check(Publications(doc)[k])])

\* The three name checks: the names of `named`, in order, go through the same loop.
\* Each returns its list of references and the warnings it added.
RECURSIVE NameRefs(_, _, _, _, _, _)
NameRefs(named, i, key, msg, refs, added) ==
    IF i > Len(named) THEN [refs |-> refs, added |-> added]
    ELSE IF Get(named[i], key) = Str("")
    THEN NameRefs(named, i + 1, key, msg, refs, Append(added, Warn(msg, "")))
    ELSE NameRefs(named, i + 1, key, msg,
                  \* _check_study_factor_names appends the list itself, not the name
                  Append(refs, IF key = "factorName" THEN Str("<study_factor_refs>")
                               ELSE Get(named[i], key)),
                  added)

Protocols(doc) == Flatten([i \in DOMAIN Studies(doc) |-> Elems(Get(Studies(doc)[i], "protocols"))])
Parameters(doc) ==
    Flatten([i \in DOMAIN Protocols(doc) |-> Elems(Get(Protocols(doc)[i], "parameters"))])
Factors(doc) == Flatten([i \in DOMAIN Studies(doc) |-> Elems(Get(Studies(doc)[i], "factors"))])

_check_protocol_names(doc) ==
    NameRefs(Protocols(doc), 1, "name",
             "A Protocol is missing Protocol Name", <<Str("")>>, <<>>)

_check_protocol_parameter_names(doc) ==
    NameRefs(Parameters(doc), 1, "parameterName",
             "A Protocol Parameter is missing Name", <<Str("")>>, <<>>)

_check_study_factor_names(doc) ==
    NameRefs(Factors(doc), 1, "factorName",
             "A Study Factor is missing Name", <<Str("")>>, <<>>)

\* The three collecting walks differ in the nodes they keep.
IsDeclaration(node) == Has(node, "@id") /\ Cardinality(Keys(node)) > 1
IsReference(node) == Has(node, "@id") /\ Cardinality(Keys(node)) = 1
IsTermSourceUse(node) == Has(node, "termSource") /\ Cardinality(Keys(node)) = 3

Collected(node, what) ==
    CASE what = "object" -> IF IsDeclaration(node) THEN <<Get(node, "@id").v>> ELSE <<>>
      [] what = "id" -> IF IsReference(node) THEN <<Get(node, "@id").v>> ELSE <<>>
      [] what = "termSource" -> IF IsTermSourceUse(node) THEN <<Get(node, "termSource").v>>
                                    ELSE <<>>

\* What a collecting walk meets, in the order of the walk.
RECURSIVE Occurrences(_, _)
Occurrences(node, what) ==
    IF IsDict(node)
    THEN Collected(node, what)
         \o Flatten([i \in DOMAIN node.items |-> Occurrences(node.items[i][2], what)])
    ELSE IF IsList(node)
    THEN Flatten([i \in DOMAIN node.items |-> Occurrences(node.items[i], what)])
    ELSE <<>>

\* `if x not in refs: refs.append(x)` for each of them in turn.
RECURSIVE AppendNew(_, _, _)
AppendNew(refs, found, i) ==
    IF i > Len(found) THEN refs
    ELSE IF found[i] \in Range(refs) THEN AppendNew(refs, found, i + 1)
    ELSE AppendNew(Append(refs, found[i]), found, i + 1)

Collect(node, what, refs) == AppendNew(refs, Occurrences(node, what), 1)

_collect_object_refs(doc, object_refs) == Collect(doc, "object", object_refs)
_collect_id_refs(doc, id_refs) == Collect(doc, "id", id_refs)
_collect_term_source_refs(doc, id_refs) == Collect(doc, "termSource", id_refs)

\* The walk of _check_object_refs: the errors it adds, in the order of the walk.
RECURSIVE _check_object_refs(_, _)
_check_object_refs(node, object_refs) ==
    IF IsDict(node)
    THEN (IF /\ IsReference(node)
             /\ Get(node, "@id").v \notin Range(object_refs)
             /\ Get(node, "@id").v # ArrayDesignRef
          THEN <<Entry("error", "Object reference not declared anywhere",
                       Get(node, "@id").v, "")>>
          ELSE <<>>)
         \o Flatten([i \in DOMAIN node.items |-> _check_object_refs(node.items[i][2], object_refs)])
    ELSE IF IsList(node)
    THEN Flatten([i \in DOMAIN node.items |-> _check_object_refs(node.items[i], object_refs)])
    ELSE <<>>

_check_object_usage(section, objects_declared, id_refs) ==
    LET check(obj_ref) ==
            IF obj_ref \notin Range(id_refs)
            THEN <<Entry("warn", "Object reference not used anywhere in", obj_ref, section)>>
            ELSE <<>>
    IN  Flatten([k \in DOMAIN objects_declared |-> check(objects_declared[k])])

\* study_id of the two usage loops
StudyId(doc, i) ==
    IF Get(Studies(doc)[i], "identifier").v # "" THEN Get(Studies(doc)[i], "identifier").v
    ELSE CASE i = 1 -> "study loc 1" [] i = 2 -> "study loc 2" [] OTHER -> "study loc n"

\* Lines 804-811 and 814-821: the declared protocols (factors) of each study
\* against every reference of the document.
DeclaredUsage(doc, section) ==
    LET ids(st) == [k \in DOMAIN Elems(Get(st, section)) |->
                       Get(Elems(Get(st, section))[k], "@id").v]
    IN  Flatten([i \in DOMAIN Studies(doc) |->
                    _check_object_usage(StudyId(doc, i), ids(Studies(doc)[i]),
                                        _collect_id_refs(doc, <<>>))])

\* Lines 822-823
TermSourceUsage(doc) ==
    LET sources == Elems(Get(doc, "ontologySourceReferences"))
        names == [i \in DOMAIN sources |-> Get(sources[i], "name").v]
    IN  [refs |-> names,
         added |-> _check_object_usage("investigation (term source check)", names,
                                       _collect_term_source_refs(doc, <<>>))]

\* The files found next to the document.
FilesPresent == {"a.raw"}

check_data_files(data_files) ==
    LET check(file) ==
            IF Get(file, "name").v \notin FilesPresent
            THEN <<Warn("File referenced but not found", Get(file, "name").v)>>
            ELSE <<>>
    IN  Flatten([k \in DOMAIN data_files |-> check(data_files[k])])

Assays(doc) == Flatten([i \in DOMAIN Studies(doc) |-> Elems(Get(Studies(doc)[i], "assays"))])

DataFilesCheck(doc) ==
    LET check(a) == check_data_files(Elems(Get(a, "dataFiles")))
    IN  Flatten([k \in DOMAIN Assays(doc) |-> check(Assays(doc)[k])])

\* The second load and isajson_link_objects: a previousProcess or nextProcess
\* pointer to a process that its sequence does not declare is a link error.
isajson_link_objects(doc) ==
    LET sequence(st) == Elems(Get(st, "processSequence"))
        declared(st) == {Get(sequence(st)[k], "@id").v : k \in DOMAIN sequence(st)}
        broken(p, key, ids) ==
            IF Has(p, key) /\ Get(Get(p, key), "@id").v \notin ids
            THEN <<Entry("error", "Could not link process", Get(Get(p, key), "@id").v, key)>>
            ELSE <<>>
        links(st) ==
            Flatten([k \in DOMAIN sequence(st) |->
                        broken(sequence(st)[k], "previousProcess", declared(st))
                        \o broken(sequence(st)[k], "nextProcess", declared(st))])
    IN  Flatten([k \in DOMAIN Studies(doc) |-> links(Studies(doc)[k])])

-----------------------------------------------------------------------------
(* validate_isajson: the sequence of checks *)

\* A check returned: what it added is in the report, and the next check is due.
Checked(added, next) ==
    /\ report' = report \o added
    /\ validate_pc' = next
    /\ validate_error' = validate_error

\* A check that keeps no list and cannot fail.
PlainCheck(added, next) ==
    /\ Checked(added, next)
    /\ isa_json' = isa_json
    /\ UNCHANGED <<ontology_source_refs, entry_report, run, first_report>>
    /\ UNCHANGED <<isajson, loadVars, studyVars>>

\* The same turn of _check_filenames, were it to fill in the filenames it misses.
Filled(node) ==
    [node EXCEPT !.items = [i \in DOMAIN @ |->
        IF @[i][1] = "filename" /\ @[i][2] = Str("") THEN <<"filename", Str("filled")>> ELSE @[i]]]

CheckFilenames_repairing ==
    /\ validate_pc = "filenames"
    /\ Checked(_check_filenames(isa_json), "ontology_sources")
    /\ isa_json' = [isa_json EXCEPT !.items = [i \in DOMAIN @ |->
           IF @[i][1] = "studies"
           THEN <<"studies", List([k \in DOMAIN @[i][2].items |-> Filled(@[i][2].items[k])])>>
           ELSE @[i]]]
    /\ UNCHANGED <<ontology_source_refs, entry_report, run, first_report>>
    /\ UNCHANGED <<isajson, loadVars, studyVars>>

\* The same turn of _check_isa_schemas, were it to report the failure and go on.
CheckIsaSchemas_reporting ==
    /\ validate_pc = "schemas"
    /\ IF _check_isa_schemas(isa_json).ok
       THEN Checked(<<>>, "filenames")
       ELSE Checked(<<Entry("fatal", "schema", "", "")>>, "filenames")
    /\ UNCHANGED <<isa_json, ontology_source_refs, entry_report, run, first_report>>
    /\ UNCHANGED <<isajson, loadVars, studyVars>>

CheckIsaSchemas ==
    /\ validate_pc = "schemas"
    /\ LET r == _check_isa_schemas(isa_json)
       IN  IF r.ok
           THEN Checked(<<>>, "filenames")
           ELSE /\ validate_pc' = "raised"
                /\ validate_error' = r.err
                /\ report' = report
    /\ UNCHANGED <<isa_json, ontology_source_refs, entry_report, run, first_report>>
    /\ UNCHANGED <<isajson, loadVars, studyVars>>

CheckFilenames ==
    /\ validate_pc = "filenames"
    /\ PlainCheck(_check_filenames(isa_json), "ontology_sources")

CheckOntologySources ==
    /\ validate_pc = "ontology_sources"
    /\ LET r == _check_ontology_sources(isa_json)
       IN  /\ Checked(r.added, "date_formats")
           /\ ontology_source_refs' = r.refs
    /\ UNCHANGED <<isa_json, entry_report, run, first_report>>
    /\ UNCHANGED <<isajson, loadVars, studyVars>>

CheckDateFormats ==
    /\ validate_pc = "date_formats"
    /\ LET r == _check_date_formats(isa_json)
       IN  IF r.ok
           THEN Checked(r.val, "term_source_refs")
           ELSE /\ validate_pc' = "raised"
                /\ validate_error' = r.err
                /\ report' = report \o r.val
    /\ UNCHANGED <<isa_json, ontology_source_refs, entry_report, run, first_report>>
    /\ UNCHANGED <<isajson, loadVars, studyVars>>

CheckTermSourceRefs ==
    /\ validate_pc = "term_source_refs"
    /\ PlainCheck(_check_term_source_refs(isa_json, ontology_source_refs),
               "pubmed_ids")

CheckPubmedIds ==
    /\ validate_pc = "pubmed_ids"
    /\ PlainCheck(_check_pubmed_ids(isa_json), "dois")

CheckDois ==
    /\ validate_pc = "dois"
    /\ PlainCheck(_check_dois(isa_json), "protocol_names")

\* The lists the three name checks return are dropped by validate_isajson.
CheckProtocolNames ==
    /\ validate_pc = "protocol_names"
    /\ PlainCheck(_check_protocol_names(isa_json).added,
               "protocol_parameter_names")

CheckProtocolParameterNames ==
    /\ validate_pc = "protocol_parameter_names"
    /\ PlainCheck(_check_protocol_parameter_names(isa_json).added,
               "study_factor_names")

CheckStudyFactorNames ==
    /\ validate_pc = "study_factor_names"
    /\ PlainCheck(_check_study_factor_names(isa_json).added, "object_refs")

CheckObjectRefs ==
    /\ validate_pc = "object_refs"
    /\ PlainCheck(
               _check_object_refs(isa_json, _collect_object_refs(isa_json, <<>>)),
               "protocol_usage")

CheckProtocolUsage ==
    /\ validate_pc = "protocol_usage"
    /\ PlainCheck(DeclaredUsage(isa_json, "protocols"), "factor_usage")

CheckFactorUsage ==
    /\ validate_pc = "factor_usage"
    /\ PlainCheck(DeclaredUsage(isa_json, "factors"), "term_source_usage")

CheckTermSourceUsage ==
    /\ validate_pc = "term_source_usage"
    /\ LET r == TermSourceUsage(isa_json)
       IN  /\ Checked(r.added, "data_files")
           /\ ontology_source_refs' = r.refs
    /\ UNCHANGED <<isa_json, entry_report, run, first_report>>
    /\ UNCHANGED <<isajson, loadVars, studyVars>>

CheckDataFiles ==
    /\ validate_pc = "data_files"
    /\ PlainCheck(DataFilesCheck(isa_json), "link_objects")

LinkObjects ==
    /\ validate_pc = "link_objects"
    /\ PlainCheck(isajson_link_objects(isa_json), "done")

\* validate is called on the same file once more: a new report, which
\* check_encoding fills as it did the first time.
ValidateAgain ==
    /\ validate_pc \in {"done", "raised"}
    /\ run = 1
    /\ run' = 2
    /\ first_report' = report
    /\ report' = entry_report
    /\ validate_pc' = "schemas"
    /\ validate_error' = NoError
    /\ ontology_source_refs' = <<>>
    /\ UNCHANGED <<isa_json, entry_report>>
    /\ UNCHANGED <<isajson, loadVars, studyVars>>

NextValidate ==
    \/ CheckIsaSchemas
    \/ CheckFilenames
    \/ CheckOntologySources
    \/ CheckDateFormats
    \/ CheckTermSourceRefs
    \/ CheckPubmedIds
    \/ CheckDois
    \/ CheckProtocolNames
    \/ CheckProtocolParameterNames
    \/ CheckStudyFactorNames
    \/ CheckObjectRefs
    \/ CheckProtocolUsage
    \/ CheckFactorUsage
    \/ CheckTermSourceUsage
    \/ CheckDataFiles
    \/ LinkObjects
    \/ ValidateAgain

-----------------------------------------------------------------------------
(* The documents validate_isajson is run on *)

MaxProcesses == 2

Ref(id) == Dict(<< <<"@id", Str(id)>> >>)
Annotation(value, source) ==
    Dict(<< <<"annotationValue", Str(value)>>, <<"termAccession", Str("")>>,
            <<"termSource", Str(source)>> >>)
IdentifiedAnnotation(id, value, source) ==
    Dict(<< <<"@id", Str(id)>>, <<"annotationValue", Str(value)>>,
            <<"termAccession", Str("")>>, <<"termSource", Str(source)>> >>)
OntologySourceNode(name) == Dict(<< <<"name", Str(name)>>, <<"description", Str("")>> >>)
PublicationNode(pubmed, doi) == Dict(<< <<"pubMedID", Str(pubmed)>>, <<"doi", Str(doi)>> >>)
ParameterNode(id, source) ==
    Dict(<< <<"@id", Str(id)>>, <<"parameterName", Annotation("volume", source)>> >>)
ProtocolNode(id, name, params) ==
    Dict(<< <<"@id", Str(id)>>, <<"name", Str(name)>>, <<"parameters", List(params)>> >>)
FactorNode(id, name) == Dict(<< <<"@id", Str(id)>>, <<"factorName", Str(name)>> >>)
DataFileNode(id, name) == Dict(<< <<"@id", Str(id)>>, <<"name", Str(name)>> >>)
AssayNode(filename, files) ==
    Dict(<< <<"filename", Str(filename)>>, <<"dataFiles", List(files)>> >>)

\* A process; date and previousProcess are keys the document may omit.
ProcessNode(id, date, prot, inputs, prev) ==
    Dict(<< <<"@id", Str(id)>>, <<"executesProtocol", Ref(prot)>> >>
         \o (IF date = NoKey THEN <<>> ELSE << <<"date", Str(date)>> >>)
         \o (IF prev = NoKey THEN <<>> ELSE << <<"previousProcess", Ref(prev)>> >>)
         \o << <<"inputs", List([i \in DOMAIN inputs |-> Ref(inputs[i])])>> >>)

StudyNode(identifier, filename, descriptors, pubs, prots, factors, procs, assays) ==
    Dict(<< <<"identifier", Str(identifier)>>, <<"filename", Str(filename)>>,
            <<"publicReleaseDate", Str("2008-08-15")>>, <<"submissionDate", Str("2008-08-15")>>,
            <<"publications", List(pubs)>>, <<"studyDesignDescriptors", List(descriptors)>>,
            <<"protocols", List(prots)>>, <<"factors", List(factors)>>,
            <<"processSequence", List(procs)>>, <<"assays", List(assays)>> >>)

InvestigationNode(names, release, pubs, studies) ==
    Dict(<< <<"ontologySourceReferences",
              List([i \in DOMAIN names |-> OntologySourceNode(names[i])])>>,
            <<"publicReleaseDate", Str(release)>>, <<"submissionDate", Str("2008-08-15")>>,
            <<"publications", List(pubs)>>, <<"studies", List(studies)>> >>)

WithKeys(node, pairs) == Dict(node.items \o pairs)

ProtocolNode1 == ProtocolNode("#protocol/1", "extraction", <<ParameterNode("#parameter/1", "OBI")>>)

\* Ontology sources and the annotations that name them; a study with a key
\* of its own is what the schema refuses.
SourceNameLists == {<<>>, <<"">>, <<"OBI">>, <<"", "OBI">>, <<"", "">>, <<"EFO">>}
Descriptors ==
    {<<>>} \cup {<<Annotation("design", ts)>> : ts \in {"", "OBI", "EFO"}}
    \cup {<<IdentifiedAnnotation("#descriptor/1", "design", ts)>> : ts \in {"", "EFO"}}
    \cup {<<Dict(<< <<"annotationValue", Annotation("design", "EFO")>>,
                    <<"termAccession", Str("")>>, <<"termSource", Str("EFO")>> >>)>>}
ExtraKeys == {<<>>, << <<"extra", Str("")>> >>}

TermSourceDocuments ==
    {InvestigationNode(names, "2008-08-15", <<>>,
        <<WithKeys(StudyNode("s1", "s_1.txt", descriptors, <<>>, <<ProtocolNode1>>, <<>>,
                             <<ProcessNode("#process/1", date, "#protocol/1", <<>>, NoKey)>>,
                             <<>>),
                   extra)>>) :
        names \in SourceNameLists, descriptors \in Descriptors,
        extra \in ExtraKeys, date \in {NoKey, "2008-08-15"}}

\* Processes and what they refer to.
ProcessShapes ==
    {[date |-> "2008-08-15", prot |-> "#protocol/1", inputs |-> <<>>, prev |-> NoKey],
     [date |-> "2008-08-15", prot |-> "#protocol/missing", inputs |-> <<>>, prev |-> NoKey],
     [date |-> "2008-08-15", prot |-> "#protocol/1", inputs |-> <<ArrayDesignRef>>,
      prev |-> "#process/1"],
     [date |-> "15/08/2008", prot |-> "#protocol/1", inputs |-> <<"#material/missing">>,
      prev |-> "#process/0"],
     [date |-> NoKey, prot |-> "#protocol/1", inputs |-> <<>>, prev |-> NoKey],
     [date |-> NoKey, prot |-> "#protocol/missing", inputs |-> <<"#protocol/missing">>,
      prev |-> NoKey]}

ProcessSequences ==
    UNION {[1..n -> ProcessShapes] : n \in 0..MaxProcesses}

ProcessNodes(shapes) ==
    [i \in DOMAIN shapes |->
        ProcessNode(CASE i = 1 -> "#process/1" [] i = 2 -> "#process/2"
                      [] i = 3 -> "#process/3" [] OTHER -> "#process/n",
                    shapes[i].date, shapes[i].prot, shapes[i].inputs, shapes[i].prev)]

ReferenceDocuments ==
    {InvestigationNode(<<"OBI">>, "2008-08-15", <<>>,
        <<StudyNode("s1", "s_1.txt", <<>>, <<>>, <<ProtocolNode1>>, <<>>,
                    ProcessNodes(shapes), <<>>)>>) :
        shapes \in ProcessSequences}

\* Names, filenames, publications and data files.
NameDocuments ==
    {InvestigationNode(<<"OBI">>, release, <<PublicationNode(pubmed, "10.1186/jbiol54")>>,
        <<StudyNode(identifier, filename, <<>>, <<PublicationNode("", "doi?")>>,
                    <<ProtocolNode("#protocol/1", name, <<>>)>>,
                    <<FactorNode("#factor/1", name)>>,
                    <<ProcessNode("#process/1", "2008-08-15", "#protocol/1", <<>>, NoKey)>>,
                    <<AssayNode(filename, <<DataFileNode("#data/1", file)>>)>>)>>) :
        release \in {"2008-08-15", "15/08/2008"}, pubmed \in {"17439666", "pm"},
        identifier \in {"", "s1"}, filename \in {"", "s_1.txt"},
        name \in {"", "extraction"}, file \in {"a.raw", "b.raw"}}

\* Two studies: the first declares a protocol and maybe a factor, the second
\* maybe a protocol; a process of either study may refer to them.
UsageProcesses ==
    {<<>>} \cup {<<ProcessNode("#process/1", date, prot, inputs, NoKey)>> :
                    date \in {NoKey, "2008-08-15"},
                    prot \in {"#protocol/1", "#protocol/2"},
                    inputs \in {<<>>, <<"#factor/1">>}}

UsageDocuments ==
    {InvestigationNode(<<"OBI">>, "2008-08-15", <<>>,
        <<StudyNode("s1", "s_1.txt", <<>>, <<>>, <<ProtocolNode1>>, factors, procs1, <<>>),
          StudyNode("s2", "s_2.txt", <<>>, <<>>,
                    <<ProtocolNode("#protocol/2", "labeling", <<>>)>>, <<>>, procs2,
                    <<>>)>>) :
        factors \in {<<>>, <<FactorNode("#factor/1", "dose")>>},
        procs1 \in UsageProcesses, procs2 \in UsageProcesses}

ValidateDocuments ==
    TermSourceDocuments \cup ReferenceDocuments \cup NameDocuments \cup UsageDocuments

\* check_encoding has run on the new report before validate_isajson is called.
EntryReports == {<<>>, <<Warn("File should be UTF-8 encoding", "")>>}

InitValidate ==
    /\ isa_json \in ValidateDocuments
    /\ entry_report \in EntryReports
    /\ report = entry_report
    /\ validate_pc = "schemas"
    /\ validate_error = NoError
    /\ ontology_source_refs = <<>>
    /\ run = 1
    /\ first_report = <<>>
    /\ LoadIdle
    /\ StudyIdle

SpecValidate == InitValidate /\ [][NextValidate]_vars

-----------------------------------------------------------------------------
(* Claims about validate_isajson *)

\* Every mapping of a document tree, the tree's root included, one entry per node.
RECURSIVE DictNodes(_)
DictNodes(node) ==
    IF node.t = "dict"
    THEN <<node>> \o Flatten([i \in DOMAIN node.items |-> DictNodes(node.items[i][2])])
    ELSE IF node.t = "list"
    THEN Flatten([i \in DOMAIN node.items |-> DictNodes(node.items[i])])
    ELSE <<>>

DeclaredIds(doc) ==
    {Get(d, "@id").v : d \in {n \in Range(DictNodes(doc)) : "@id" \in Keys(n) /\ Keys(n) # {"@id"}}}

\* The reference nodes whose identifier no declaration node carries, the sentinel apart.
UndeclaredReferences(doc) ==
    LET undeclared(n) ==
            /\ Keys(n) = {"@id"}
            /\ Get(n, "@id").v \notin DeclaredIds(doc)
            /\ Get(n, "@id").v # "#parameter/Array_Design_REF"
    IN  Cardinality({k \in DOMAIN DictNodes(doc) : undeclared(DictNodes(doc)[k])})

NotDeclaredErrors(rep) ==
    LET notDeclared(e) == e.level = "error" /\ e.msg = "Object reference not declared anywhere"
    IN  Cardinality({k \in DOMAIN rep : notDeclared(rep[k])})

ValidateEnded == validate_pc \in {"done", "raised"}

\* C5: when validate_isajson has ended on a document the schema accepts, the
\* report holds as many "object reference not declared" errors as the document
\* has reference nodes whose identifier is neither declared nor the array-design
\* sentinel, and a run that reported such an error was not cut short.
C5_ErrorPerUndeclaredReference ==
    (ValidateEnded /\ Conforms(isa_json)) =>
        /\ NotDeclaredErrors(report) = UndeclaredReferences(isa_json)
        /\ NotDeclaredErrors(report) > 0 => validate_pc = "done"

EmptyNamed(doc) ==
    LET sources == Elems(Get(doc, "ontologySourceReferences"))
        unnamed(src) == Get(src, "name").v = ""
    IN  Cardinality({k \in DOMAIN sources : unnamed(sources[k])})

MissingNameWarnings(rep) ==
    LET missing(e) ==
            e.level = "warn" /\ e.msg = "An Ontology Source Reference is missing Term Source Name"
    IN  Cardinality({k \in DOMAIN rep : missing(rep[k])})

UnusedEmptyNameWarnings(rep) ==
    LET unused(e) ==
            /\ e.level = "warn"
            /\ e.msg = "Object reference not used anywhere in"
            /\ e.section = "investigation (term source check)"
            /\ e.about = ""
    IN  Cardinality({k \in DOMAIN rep : unused(rep[k])})

\* The position at which the annotations are checked against ontology_source_refs.
AnnotationsChecked == validate_pc = "term_source_refs"

\* C7, as stated: over a whole run each ontology source with an empty name has
\* produced exactly one warning, and the empty name is not in the set the
\* annotation term sources are checked against.
C7_EmptyNameOneWarning ==
    /\ validate_pc = "done" =>
           MissingNameWarnings(report) + UnusedEmptyNameWarnings(report) = EmptyNamed(isa_json)
    /\ AnnotationsChecked => "" \notin Range(ontology_source_refs)

\* Some mapping of exactly three keys names the empty string as its term source.
EmptySourceUsed(doc) ==
    \E n \in Range(DictNodes(doc)) :
        /\ "termSource" \in Keys(n)
        /\ Cardinality(Keys(n)) = 3
        /\ Get(n, "termSource").v = ""

\* C7, amended: each ontology source with an empty name produces one "missing
\* Term Source Name" warning in the ontology source check; a run that reaches
\* the term source usage check adds one "not used" warning for each of them,
\* unless a three-key mapping names the empty term source; and the empty name
\* always is in the set the annotation term sources are checked against, so
\* that an annotation with an empty term source is never reported.
C7_EmptyNameWarnings ==
    /\ (Conforms(isa_json) /\ validate_pc \notin {"schemas", "filenames", "ontology_sources"}) =>
           MissingNameWarnings(report) = EmptyNamed(isa_json)
    /\ validate_pc \in {"data_files", "link_objects", "done"} =>
           UnusedEmptyNameWarnings(report) =
               IF EmptySourceUsed(isa_json) THEN 0 ELSE EmptyNamed(isa_json)
    /\ validate_pc \notin {"data_files", "link_objects", "done"} =>
           UnusedEmptyNameWarnings(report) = 0
    /\ AnnotationsChecked => "" \in Range(ontology_source_refs)
    /\ \A i \in DOMAIN report :
           report[i].msg = "Annotation references term source that has not been declared"
               => report[i].about # ""

C7_Witness ==
    /\ validate_pc = "done"
    /\ EmptyNamed(isa_json) = 2
    /\ MissingNameWarnings(report) = 2
    /\ UnusedEmptyNameWarnings(report) = 2

\* The warnings and the errors of a report, as a multiset.
Findings(rep) ==
    LET found == {e \in Range(rep) : e.level \in {"warn", "error"}}
    IN  [e \in found |-> Cardinality({i \in DOMAIN rep : rep[i] = e})]

C10_SchemaFailureStopsAll ==
    ~Conforms(isa_json) =>
        /\ validate_pc \in {"schemas", "raised"}
        /\ report = entry_report
        /\ validate_pc = "raised" => validate_error.type = "ValidationError"

C10_Witness ==
    /\ validate_pc = "raised"
    /\ validate_error.type = "ValidationError"
    /\ report = entry_report
    /\ entry_report # <<>>
    /\ EmptyNamed(isa_json) > 0

-----------------------------------------------------------------------------
(* Study.from_dict and Study.to_dict *)

\* X().from_dict(data) of the entity classes: the object keeps what it was
\* declared with, and X.to_dict() gives that back.
EntityFromDict(kind, data) == [kind |-> kind, id |-> data.id, data |-> data]
EntityToDict(obj) == obj.data

\* An assay has no identifier of its own; its file name stands for it.
AssayFromDict(data) == [kind |-> "Assay", id |-> data.filename, data |-> data]

EntitiesFromDict(kind, section) == [i \in DOMAIN section |-> EntityFromDict(kind, section[i])]
EntitiesToDict(objs) == [i \in DOMAIN objs |-> EntityToDict(objs[i])]

\* StudyAssayMixin.categories_to_dict
categories_to_dict(self) == EntitiesToDict(self.characteristic_categories)

\* loader_states: one pool for each kind, by identifier.
EmptyIndexes ==
    [characteristic_categories |-> EmptyDict, units |-> EmptyDict, protocols |-> EmptyDict,
     factors |-> EmptyDict, sources |-> EmptyDict, samples |-> EmptyDict,
     processes |-> EmptyDict]

RECURSIVE IndexAll(_, _, _)
IndexAll(pool, objs, i) ==
    IF i > Len(objs) THEN pool ELSE IndexAll(DictPut(pool, objs[i].id, objs[i]), objs, i + 1)

\* Study()
EmptyStudy ==
    [filename |-> "", identifier |-> "", characteristic_categories |-> <<>>, units |-> <<>>,
     protocols |-> <<>>, factors |-> <<>>, sources |-> <<>>, samples |-> <<>>,
     other_material |-> <<>>, process_sequence |-> <<>>, process_objects |-> EmptyDict,
     assays |-> <<>>]

StudyStep(next) ==
    /\ from_dict_pc' = next
    /\ UNCHANGED <<study_data, to_dict_result>>
    /\ UNCHANGED <<isajson, loadVars, validateVars>>

\* Lines 365-383: the plain fields, then the characteristic categories: those
\* of the assays enter the index only, those of the study the study as well.
\* Line 375 reads assay['characteristicCategories'] without a default: the
\* first assay without the key raises KeyError, after the categories of the
\* assays before it have entered the index.
WithoutCategories(data) ==
    {i \in DOMAIN data.assays : "characteristicCategories" \notin DOMAIN data.assays[i]}

Scanned(data) ==
    IF WithoutCategories(data) = {} THEN Len(data.assays)
    ELSE CHOOSE i \in 0..Len(data.assays) :
             /\ i + 1 \in WithoutCategories(data)
             /\ \A j \in 1..i : j \notin WithoutCategories(data)

AssayCategories(data) ==
    Flatten([i \in 1..Scanned(data) |->
                EntitiesFromDict("OntologyAnnotation",
                                 data.assays[i].characteristicCategories)])

FromDictCategories ==
    /\ from_dict_pc = "categories"
    /\ LET own == EntitiesFromDict("OntologyAnnotation",
                                   study_data.characteristicCategories)
       IN  IF WithoutCategories(study_data) # {}
           THEN /\ self_study' = [self_study EXCEPT
                       !.filename = study_data.filename,
                       !.identifier = study_data.identifier]
                /\ indexes' = [indexes EXCEPT !.characteristic_categories =
                       IndexAll(@, AssayCategories(study_data), 1)]
                /\ StudyStep("raised")
           ELSE /\ self_study' = [self_study EXCEPT
                       !.filename = study_data.filename,
                       !.identifier = study_data.identifier,
                       !.characteristic_categories = @ \o own]
                /\ indexes' = [indexes EXCEPT !.characteristic_categories =
                       IndexAll(IndexAll(@, AssayCategories(study_data), 1), own, 1)]
                /\ StudyStep("units")

\* A section whose entities go to the study and to the index.
Declared(kind, section) == EntitiesFromDict(kind, section)

FromDictUnits ==
    /\ from_dict_pc = "units"
    /\ LET objs == Declared("OntologyAnnotation", study_data.unitCategories)
       IN  /\ self_study' = [self_study EXCEPT !.units = @ \o objs]
           /\ indexes' = [indexes EXCEPT !.units = IndexAll(@, objs, 1)]
    /\ StudyStep("protocols")

FromDictProtocols ==
    /\ from_dict_pc = "protocols"
    /\ LET objs == Declared("Protocol", study_data.protocols)
       IN  /\ self_study' = [self_study EXCEPT !.protocols = @ \o objs]
           /\ indexes' = [indexes EXCEPT !.protocols = IndexAll(@, objs, 1)]
    /\ StudyStep("factors")

FromDictFactors ==
    /\ from_dict_pc = "factors"
    /\ LET objs == Declared("StudyFactor", study_data.factors)
       IN  /\ self_study' = [self_study EXCEPT !.factors = @ \o objs]
           /\ indexes' = [indexes EXCEPT !.factors = IndexAll(@, objs, 1)]
    /\ StudyStep("sources")

FromDictSources ==
    /\ from_dict_pc = "sources"
    /\ LET objs == Declared("Source", study_data.sources)
       IN  /\ self_study' = [self_study EXCEPT !.sources = @ \o objs]
           /\ indexes' = [indexes EXCEPT !.sources = IndexAll(@, objs, 1)]
    /\ StudyStep("samples")

FromDictSamples ==
    /\ from_dict_pc = "samples"
    /\ LET objs == Declared("Sample", study_data.samples)
       IN  /\ self_study' = [self_study EXCEPT !.samples = @ \o objs]
           /\ indexes' = [indexes EXCEPT !.samples = IndexAll(@, objs, 1)]
    /\ StudyStep("processes")

\* Process().from_dict(process_data): the links are set by the second loop.
ProcessFromDict(data) ==
    [kind |-> "Process", id |-> data.id, data |-> data,
     prev_process |-> NoneObj, next_process |-> NoneObj]

ProcessRef(id) == [kind |-> "Process", id |-> id]

\* Process.to_dict
ProcessToDict(obj) ==
    [obj.data EXCEPT
        !.previousProcess = IF obj.prev_process = NoneObj THEN NoKey ELSE obj.prev_process.id,
        !.nextProcess = IF obj.next_process = NoneObj THEN NoKey ELSE obj.next_process.id]

\* Lines 439-443
FromDictProcesses ==
    /\ from_dict_pc = "processes"
    /\ LET section == study_data.processSequence
           objs == [i \in DOMAIN section |-> ProcessFromDict(section[i])]
       IN  /\ self_study' = [self_study EXCEPT
                  !.process_sequence = @ \o [i \in DOMAIN objs |-> objs[i].id],
                  !.process_objects = IndexAll(@, objs, 1)]
           /\ indexes' = [indexes EXCEPT !.processes = IndexAll(@, objs, 1)]
    /\ StudyStep("links")

\* Lines 445-455, one turn: the first lookup that raises KeyError ends the turn.
LinkFromDict(data, known, objects) ==
    IF data.id \notin DOMAIN known THEN objects
    ELSE IF data.previousProcess = NoKey \/ data.previousProcess \notin DOMAIN known
    THEN objects
    ELSE LET linked == [objects EXCEPT ![data.id].prev_process = ProcessRef(data.previousProcess)]
         IN  IF data.nextProcess = NoKey \/ data.nextProcess \notin DOMAIN known
             THEN linked
             ELSE [linked EXCEPT ![data.id].next_process = ProcessRef(data.nextProcess)]

RECURSIVE LinksFromDict(_, _, _, _)
LinksFromDict(section, i, known, objects) ==
    IF i > Len(section) THEN objects
    ELSE LinksFromDict(section, i + 1, known, LinkFromDict(section[i], known, objects))

FromDictLinks ==
    /\ from_dict_pc = "links"
    /\ self_study' = [self_study EXCEPT !.process_objects =
           LinksFromDict(study_data.processSequence, 1, indexes.processes, @)]
    /\ indexes' = indexes
    /\ StudyStep("assays")

\* Lines 458-462: the index of processes is emptied before each assay.
FromDictAssays ==
    /\ from_dict_pc = "assays"
    /\ LET section == study_data.assays
       IN  /\ self_study' = [self_study EXCEPT !.assays = @ \o [i \in DOMAIN section |->
                                                              AssayFromDict(section[i])]]
           /\ indexes' = IF section = <<>> THEN indexes
                         ELSE [indexes EXCEPT !.processes = EmptyDict]
    /\ StudyStep("reset")

\* Line 464
FromDictEnd ==
    /\ from_dict_pc = "reset"
    /\ indexes' = EmptyIndexes
    /\ self_study' = self_study
    /\ StudyStep("loaded")

\* Study.to_dict
ToDict ==
    /\ from_dict_pc = "loaded"
    /\ to_dict_result' =
           [filename |-> self_study.filename,
            identifier |-> self_study.identifier,
            protocols |-> EntitiesToDict(self_study.protocols),
            sources |-> EntitiesToDict(self_study.sources),
            samples |-> EntitiesToDict(self_study.samples),
            otherMaterials |-> EntitiesToDict(self_study.other_material),
            processSequence |-> [i \in DOMAIN self_study.process_sequence |->
                ProcessToDict(self_study.process_objects[self_study.process_sequence[i]])],
            factors |-> EntitiesToDict(self_study.factors),
            characteristicCategories |-> categories_to_dict(self_study),
            unitCategories |-> EntitiesToDict(self_study.units),
            assays |-> EntitiesToDict(self_study.assays)]
    /\ from_dict_pc' = "serialized"
    /\ UNCHANGED <<study_data, self_study, indexes>>
    /\ UNCHANGED <<isajson, loadVars, validateVars>>

\* A later document, handed to from_dict of a new Study() once the call on the
\* first document has ended, by returning or by raising. `indexes` is a module
\* global (study.py imports it from loader_states): the call starts with
\* whatever the call before left in it.
LaterStudyDocuments ==
    {[StudyJson EXCEPT
         !.identifier = "S2",
         !.processSequence = procs] :
        procs \in {<<>>,
                   <<ProcessJson("#process/3", "#protocol/1", <<>>, <<>>, NoKey, NoKey)>>}}

FromDictAgain ==
    /\ from_dict_pc \in {"serialized", "raised"}
    /\ study_data \notin LaterStudyDocuments
    /\ study_data' \in LaterStudyDocuments
    /\ self_study' = EmptyStudy
    /\ indexes' = indexes
    /\ to_dict_result' = NoneObj
    /\ from_dict_pc' = "categories"
    /\ UNCHANGED <<isajson, loadVars, validateVars>>

NextStudy ==
    \/ FromDictAgain
    \/ FromDictCategories
    \/ FromDictUnits
    \/ FromDictProtocols
    \/ FromDictFactors
    \/ FromDictSources
    \/ FromDictSamples
    \/ FromDictProcesses
    \/ FromDictLinks
    \/ FromDictAssays
    \/ FromDictEnd
    \/ ToDict

\* The study documents from_dict is run on: they carry every section, each in
\* both orders of its declarations.
Orders(a, b) == {<<>>, <<a>>, <<a, b>>, <<b, a>>}

StudyProcessSequences ==
    {<<>>,
     <<ProcessJson("#process/1", "#protocol/1", <<>>, <<>>, NoKey, NoKey)>>,
     <<ProcessJson("#process/1", "#protocol/1", <<>>, <<>>, NoKey, "#process/2"),
       ProcessJson("#process/2", "#protocol/1", <<>>, <<>>, "#process/1", NoKey)>>,
     <<ProcessJson("#process/2", "#protocol/1", <<>>, <<>>, "#process/1", NoKey),
       ProcessJson("#process/1", "#protocol/1", <<>>, <<>>, NoKey, "#process/2")>>}

\* An assay dict without the key 'characteristicCategories'.
AssayJsonWithoutCategories ==
    [key \in DOMAIN AssayJson \ {"characteristicCategories"} |->
        [AssayJson EXCEPT !.filename = "a_3.txt"][key]]

StudyAssays ==
    (Orders([AssayJson EXCEPT !.filename = "a_1.txt",
                              !.characteristicCategories = <<DeclJson("#category/a")>>],
            [AssayJson EXCEPT !.filename = "a_2.txt"])
     \ {<<[AssayJson EXCEPT !.filename = "a_1.txt",
                            !.characteristicCategories = <<DeclJson("#category/a")>>]>>})
    \cup {<<AssayJsonWithoutCategories>>,
          <<[AssayJson EXCEPT !.filename = "a_1.txt",
                              !.characteristicCategories = <<DeclJson("#category/a")>>],
            AssayJsonWithoutCategories>>}

StudyDocuments ==
    {[StudyJson EXCEPT
         !.characteristicCategories = cats,
         !.unitCategories = units,
         !.protocols = <<Protocol1>>,
         !.factors = factors,
         !.sources = sources,
         !.samples = samples,
         !.otherMaterials = others,
         !.processSequence = procs,
         !.assays = assays] :
        cats \in Orders(DeclJson("#category/1"), DeclJson("#category/2")),
        units \in {<<>>, <<DeclJson("#unit/1")>>},
        factors \in {<<FactorJson("#factor/1", "dose")>>},
        sources \in {<<>>, <<MaterialJson("#source/2", <<>>), MaterialJson("#source/1", <<>>)>>},
        samples \in {<<>>, <<SampleJson("#sample/1", <<>>, <<>>)>>},
        others \in Orders(MaterialJson("#material/1", <<>>), MaterialJson("#material/2", <<>>))
                   \ {<<MaterialJson("#material/1", <<>>)>>},
        procs \in StudyProcessSequences,
        assays \in StudyAssays}

InitStudy ==
    /\ study_data \in StudyDocuments
    /\ from_dict_pc = "categories"
    /\ self_study = EmptyStudy
    /\ indexes = EmptyIndexes
    /\ to_dict_result = NoneObj
    /\ LoadIdle
    /\ ValidateIdle

SpecStudy == InitStudy /\ [][NextStudy]_vars

-----------------------------------------------------------------------------
(* Claims about Study.from_dict and Study.to_dict *)

Sections ==
    {"characteristicCategories", "unitCategories", "protocols", "factors", "sources",
     "samples", "otherMaterials", "processSequence", "assays"}

\* The identifiers declared in a section, as a multiset.
DeclaredIn(doc, section) ==
    LET decls == doc[section]
        name(d) == IF section = "assays" THEN d.filename ELSE d.id
    IN  [id \in {name(decls[i]) : i \in DOMAIN decls} |->
            Cardinality({i \in DOMAIN decls : name(decls[i]) = id})]

\* C9: what to_dict returns after from_dict declares, section by section, the
\* entities of the document, each as often as the document declares it.
C9_RoundTripKeepsEntities ==
    from_dict_pc = "serialized" =>
        \A section \in Sections :
            DeclaredIn(to_dict_result, section) = DeclaredIn(study_data, section)

-----------------------------------------------------------------------------
(* Further claims about validate_isajson *)

\* C11: on a document the schema check accepts no exception leaves
\* validate_isajson: a run that ended has gone through every check and
\* returned, whatever the checks found and whichever keys the document omits.
C11_AcceptedDocumentReturns ==
    (Conforms(isa_json) /\ ValidateEnded) =>
        /\ validate_pc = "done"
        /\ validate_error = NoError

-----------------------------------------------------------------------------
(* Further claims about load *)

\* The identifiers of the processes a document declares, in its studies and assays.
ProcessIds(doc) == {p.id : p \in ProcessesJson(doc)}

\* Some process names as its previousProcess or nextProcess an identifier
\* that no process of the document has.
HasDanglingPointer(doc) ==
    \E p \in ProcessesJson(doc) :
        \E ref \in {p.previousProcess, p.nextProcess} \ {NoKey} : ref \notin ProcessIds(doc)

\* C12: load never returns an Investigation for a document in which a
\* previousProcess or nextProcess pointer names no declared process.
C12_DanglingPointerFails ==
    HasDanglingPointer(isajson) => (pc # "returned" /\ result = NoneObj)


\* Two entries of one declaration list carry the same identifier.
Repeats(decls) ==
    \E i \in DOMAIN decls : \E j \in DOMAIN decls : i < j /\ decls[i].id = decls[j].id

\* Some study declares two protocols, two sources or two processes of its
\* process sequence under one identifier.
HasDuplicateIdentifier(doc) ==
    \E st \in Range(doc.studies) :
        Repeats(st.protocols) \/ Repeats(st.sources) \/ Repeats(st.processSequence)

\* C13: load never returns an Investigation for a document in which a study
\* declares two protocols, two sources or two processes under one identifier;
\* the second declaration is refused with a duplicate-identifier error.
C13_DuplicateIdentifierFails ==
    HasDuplicateIdentifier(isajson) => (pc # "returned" /\ result = NoneObj)


\* C14: what an assay declares stays in that assay: every unit that load has
\* resolved for a reference was declared by the study that holds the reference
\* or by the very assay that holds it, and every other material and data file
\* among the inputs and outputs of an assay process was declared by that assay.
C14_AssayScopedIdentifiers ==
    /\ \A r \in ResolvedReferences :
           (r.to # NoneObj /\ r.to.kind = "Unit") => (r.to.s = r.s /\ r.to.a \in {0, r.a})
    /\ \A p \in DOMAIN processes :
           \A k \in DOMAIN NodesOf(p) :
               LET n == NodesOf(p)[k]
               IN  (n # NoneObj /\ n.kind \in {"Material", "DataFile"}) =>
                       (n.s = p.s /\ n.a = p.a)


\* C15: a call of Study.from_dict starts with empty identifier pools, whatever
\* the calls before it did and however they ended: nothing that an earlier
\* document declared is in the index when the next document is taken up.
C15_FromDictStartsEmpty ==
    from_dict_pc = "categories" => indexes = EmptyIndexes


-----------------------------------------------------------------------------
(* Shape of the workflow graphs *)

\* The nodes reached from a set of nodes along the edges, the set included.
RECURSIVE ReachableFrom(_, _)
ReachableFrom(edges, nodes) ==
    LET step == nodes \cup {e[2] : e \in {x \in edges : x[1] \in nodes}}
    IN  IF step = nodes THEN nodes ELSE ReachableFrom(edges, step)

\* No edge lies on a directed cycle; a self-loop is a cycle of one edge.
IsAcyclic(edges) == \A e \in edges : e[1] \notin ReachableFrom(edges, {e[2]})

\* The graphs of the studies and assays of the Investigation that load returned.
GraphsReturned ==
    {result.studies[s].graph : s \in 1..Len(result.studies)}
    \cup UNION {{result.studies[s].assays[a].graph :
                    a \in 1..Len(result.studies[s].assays)} :
                s \in 1..Len(result.studies)}

\* C16: when load returns, the workflow graph of every study and of every
\* assay is acyclic: it has no directed cycle and no self-loop.
C16_GraphsAcyclic ==
    pc = "returned" => \A g \in GraphsReturned : IsAcyclic(g.edges)


\* The outgoing and the incoming edges a process is to contribute, as the
\* description of the graph builder states them.
ExpectedOutgoing(p, heap) ==
    IF Len(heap[p].outputs) > 0
    THEN {<<p, o>> : o \in {n \in Range(heap[p].outputs) : n.kind # "DataFile"}}
    ELSE IF heap[p].next_process # NoneObj THEN {<<p, heap[p].next_process>>} ELSE {}

ExpectedIncoming(p, heap) ==
    IF Len(heap[p].inputs) > 0
    THEN {<<i, p>> : i \in Range(heap[p].inputs)}
    ELSE IF heap[p].prev_process # NoneObj THEN {<<heap[p].prev_process, p>>} ELSE {}

\* Every process contributes its outgoing edges, and an edge that leaves a
\* process is one of them unless another process contributed it as incoming.
OutgoingAsSpecified(graph, sequence, heap) ==
    \A p \in Range(sequence) :
        /\ ExpectedOutgoing(p, heap) \subseteq graph.edges
        /\ ({e \in graph.edges : e[1] = p}
            \ UNION {ExpectedIncoming(q, heap) : q \in Range(sequence)})
               \subseteq ExpectedOutgoing(p, heap)

IncomingAsSpecified(graph, sequence, heap) ==
    \A p \in Range(sequence) :
        /\ ExpectedIncoming(p, heap) \subseteq graph.edges
        /\ ({e \in graph.edges : e[2] = p}
            \ UNION {ExpectedOutgoing(q, heap) : q \in Range(sequence)})
               \subseteq ExpectedIncoming(p, heap)

\* The step that builds the graph of the study, and a step that builds the
\* graph of the assay over the processes read so far.
StudyGraphBuilt == ~study.graph.built /\ study'.graph.built
AssayGraphBuilt == pc = "assay_process" /\ assay' # assay /\ assay'.graph.built

\* C17: in a graph just built, a process with outputs has an edge to each of
\* its outputs that is not a data file and no edge of its own to its next
\* process; a process without outputs has the edge to its next process if it
\* has one; a process contributes no other outgoing edge.
C17_OutgoingEdges ==
    [][/\ StudyGraphBuilt =>
              OutgoingAsSpecified(study'.graph, study'.process_sequence, processes')
       /\ AssayGraphBuilt =>
              OutgoingAsSpecified(assay'.graph, assay'.process_sequence, processes')]_vars

\* A returned load whose assay holds a process with a material and a data file
\* as outputs and a nextProcess link that no previousProcess link mirrors.
C17_Witness ==
    /\ pc = "returned"
    /\ isajson \in FlowDocuments
    /\ LET pjs == isajson.studies[1].assays[1].processSequence
           g == result.studies[1].assays[1].graph
       IN  /\ pjs[1].outputs = <<"#material/x", "#data/f">>
           /\ pjs[1].nextProcess = ProcessId(2)
           /\ pjs[2].previousProcess = NoKey
           /\ Cardinality({e \in g.edges : e[1] = Handle(pjs[1], 1, 1, 1)}) = 1

\* C18: in a graph just built, a process with inputs has an edge from each of
\* its inputs and no edge of its own from its previous process; a process
\* without inputs has the edge from its previous process if it has one; a
\* process contributes no other incoming edge.
C18_IncomingEdges ==
    [][/\ StudyGraphBuilt =>
              IncomingAsSpecified(study'.graph, study'.process_sequence, processes')
       /\ AssayGraphBuilt =>
              IncomingAsSpecified(assay'.graph, assay'.process_sequence, processes')]_vars

\* A returned load whose assay holds a process with a material as input and a
\* previousProcess link that no nextProcess link mirrors.
C18_Witness ==
    /\ pc = "returned"
    /\ isajson \in FlowDocuments
    /\ LET pjs == isajson.studies[1].assays[1].processSequence
           g == result.studies[1].assays[1].graph
       IN  /\ pjs[2].inputs = <<"#material/x">>
           /\ pjs[2].previousProcess = ProcessId(1)
           /\ pjs[1].nextProcess = NoKey
           /\ Cardinality({e \in g.edges : e[2] = Handle(pjs[2], 1, 1, 2)}) = 1

\* C19: when load returns, no edge of any workflow graph starts or ends at a
\* data file, be the data file an output or an input of a process.
C19_NoDataFileEndpoint ==
    pc = "returned" =>
        \A g \in GraphsReturned :
            \A e \in g.edges : e[1].kind # "DataFile" /\ e[2].kind # "DataFile"


-----------------------------------------------------------------------------
(* Categories declared by assays and used by the study *)

\* The places of the document that declare a characteristic category under id.
CategoryDeclarations(doc, id) ==
    UNION {{<<"Category", s, 0, i>> :
               i \in {j \in DOMAIN doc.studies[s].characteristicCategories :
                         doc.studies[s].characteristicCategories[j].id = id}}
           \cup UNION {{<<"Category", s, a, i>> :
                           i \in {j \in DOMAIN doc.studies[s].assays[a].characteristicCategories :
                                     doc.studies[s].assays[a].characteristicCategories[j].id = id}} :
                       a \in DOMAIN doc.studies[s].assays} :
           s \in DOMAIN doc.studies}

\* The identifier has one declaration in the document, inside an assay of study s.
DeclaredOnlyInAssay(doc, id, s) ==
    /\ Cardinality(CategoryDeclarations(doc, id)) = 1
    /\ \A d \in CategoryDeclarations(doc, id) : d[2] = s /\ d[3] > 0

\* The sources and samples built so far.
StudyMaterialsBuilt == UNION {Range(st.sources) \cup Range(st.samples) : st \in StudiesBuilt}

\* C20: a characteristic of a source or sample of a study whose category is
\* declared only inside an assay of that study holds the category made from
\* that declaration, and load never fails to find a category that some assay
\* of the document declares.
C20_AssayCategoryResolves ==
    /\ \A m \in StudyMaterialsBuilt :
           \A c \in Range(m.characteristics) :
               DeclaredOnlyInAssay(isajson, c.category.id, m.s) =>
                   Place(c.category) \in CategoryDeclarations(isajson, c.category.id)
    /\ (pc = "raised" /\ error.type = "KeyError") =>
           \A s \in DOMAIN isajson.studies :
               \A a \in DOMAIN isajson.studies[s].assays :
                   \A d \in Range(isajson.studies[s].assays[a].characteristicCategories) :
                       error.key # d.id

\* A returned load whose study declares no category and whose source and
\* sample hold the category that the assay declares second.
C20_Witness ==
    /\ pc = "returned"
    /\ isajson \in CategoryDocuments
    /\ isajson.studies[1].characteristicCategories = <<>>
    /\ Len(isajson.studies[1].assays[1].characteristicCategories) = 2
    /\ \A m \in Range(result.studies[1].sources) \cup Range(result.studies[1].samples) :
           /\ Len(m.characteristics) = 1
           /\ Place(m.characteristics[1].category) = <<"Category", 1, 1, 2>>


-----------------------------------------------------------------------------
(* The two passes over a process sequence *)

\* The processSequence of the document that a Process object was made from.
SequenceOf(p) ==
    IF p.a = 0 THEN isajson.studies[p.s].processSequence
    ELSE isajson.studies[p.s].assays[p.a].processSequence

\* Every process of the sequence has its object.
SequenceCreated(p) ==
    \A i \in DOMAIN SequenceOf(p) : Handle(SequenceOf(p)[i], p.s, p.a, i) \in DOMAIN processes

\* C21: a process carries a prev_process or next_process link only once the
\* first pass has created every process of its sequence: no link is looked up
\* and set while a process of the sequence does not exist yet.
C21_LinksAfterAllProcesses ==
    \A p \in DOMAIN processes :
        (processes[p].prev_process # NoneObj \/ processes[p].next_process # NoneObj) =>
            SequenceCreated(p)


\* The processes that a process is linked to.
LinkedProcesses(p) == {processes[p].prev_process, processes[p].next_process} \ {NoneObj}

\* C22: when load returns, every prev_process and next_process link leads to
\* a process of the same process sequence as the process that holds it: the
\* same study, and the same assay or the study itself.
C22_LinksStayInSequence ==
    pc = "returned" =>
        \A p \in DOMAIN processes :
            \A q \in LinkedProcesses(p) : q.s = p.s /\ q.a = p.a


-----------------------------------------------------------------------------
(* Declared but unused protocols, factors and ontology sources *)

\* The identifiers that reference nodes of the document carry.
ReferencedIds(doc) ==
    {Get(n, "@id").v : n \in {d \in Range(DictNodes(doc)) : Keys(d) = {"@id"}}}

\* The declarations of protocols and factors, study by study, whose
\* identifier no reference node carries.
UnusedDeclarations(doc) ==
    {d \in UNION {{<<i, section, k>> : k \in DOMAIN Elems(Get(Studies(doc)[i], section))} :
                  i \in DOMAIN Studies(doc), section \in {"protocols", "factors"}} :
        Get(Elems(Get(Studies(doc)[d[1]], d[2]))[d[3]], "@id").v \notin ReferencedIds(doc)}

\* The "not used" warnings of a report about the declarations of studies.
StudyUnusedWarnings(rep) ==
    {k \in DOMAIN rep :
        /\ rep[k].level = "warn"
        /\ rep[k].msg = "Object reference not used anywhere in"
        /\ rep[k].section # "investigation (term source check)"}

\* C23: when validate_isajson has ended on a document the schema accepts, the
\* report holds one "not used" warning for each protocol and each factor that
\* a study declares and no reference node of the document names, each under
\* the identifier of its study, and no other such warning.
C23_UnusedPerDeclaration ==
    (ValidateEnded /\ Conforms(isa_json)) =>
        /\ Cardinality(StudyUnusedWarnings(report)) = Cardinality(UnusedDeclarations(isa_json))
        /\ \A d \in UnusedDeclarations(isa_json) :
               \E k \in StudyUnusedWarnings(report) :
                   /\ report[k].about =
                          Get(Elems(Get(Studies(isa_json)[d[1]], d[2]))[d[3]], "@id").v
                   /\ report[k].section = StudyId(isa_json, d[1])


\* An annotation node, in its plain form or with a local identifier.
PlainAnnotationKeys == {"annotationValue", "termAccession", "termSource"}
IsAnnotationNode(n) == Keys(n) = PlainAnnotationKeys \/ Keys(n) = PlainAnnotationKeys \cup {"@id"}

\* The term sources that the annotation nodes of the document name.
TermSourcesNamed(doc) ==
    {Get(n, "termSource").v : n \in {d \in Range(DictNodes(doc)) : IsAnnotationNode(d)}}

SourceNames(doc) ==
    {Get(src, "name").v : src \in Range(Elems(Get(doc, "ontologySourceReferences")))}

UnusedSourceWarnings(rep, name) ==
    Cardinality({k \in DOMAIN rep :
                    /\ rep[k].level = "warn"
                    /\ rep[k].msg = "Object reference not used anywhere in"
                    /\ rep[k].section = "investigation (term source check)"
                    /\ rep[k].about = name})

\* The term source usage check has run.
TermSourceUsageChecked == validate_pc \in {"data_files", "link_objects", "done"}

\* C24: once the term source usage check has run, an ontology source that the
\* document declares is reported as unused if and only if no annotation node,
\* plain or identified, names it as its term source.
C24_UnusedSourceReported ==
    TermSourceUsageChecked =>
        \A name \in SourceNames(isa_json) :
            (UnusedSourceWarnings(report, name) > 0) <=> (name \notin TermSourcesNamed(isa_json))


-----------------------------------------------------------------------------
(* Annotations and the term sources they name *)

\* The annotation nodes of the document, plain or identified and at any
\* depth, that name term source ts.
AnnotationsNaming(doc, ts) ==
    Cardinality({k \in DOMAIN DictNodes(doc) :
                    /\ IsAnnotationNode(DictNodes(doc)[k])
                    /\ Get(DictNodes(doc)[k], "termSource").v = ts})

UndeclaredSourceWarning(e) ==
    e.level = "warn" /\ e.msg = "Annotation references term source that has not been declared"

\* The step of validate_isajson that runs the term-source check.
TermSourceCheckRuns == validate_pc = "term_source_refs" /\ validate_pc' # validate_pc

\* C25: the term-source check adds to the report one warning for each
\* annotation node whose term source is neither the empty string nor the name
\* of a declared ontology source, and adds nothing else.
C25_WarningPerUndeclaredSource ==
    [][TermSourceCheckRuns =>
          LET added == SubSeq(report', Len(report) + 1, Len(report'))
              declared == SourceNames(isa_json) \cup {""}
          IN  /\ Len(report') >= Len(report)
              /\ SubSeq(report', 1, Len(report)) = report
              /\ \A k \in DOMAIN added :
                     UndeclaredSourceWarning(added[k]) /\ added[k].about \notin declared
              /\ \A ts \in TermSourcesNamed(isa_json) \ declared :
                     Cardinality({k \in DOMAIN added : added[k].about = ts})
                         = AnnotationsNaming(isa_json, ts)]_vars

\* The check has run on a document in which an annotation with an undeclared
\* term source lies inside another one, and has reported both.
C25_Witness ==
    /\ validate_pc = "pubmed_ids"
    /\ AnnotationsNaming(isa_json, "EFO") = 2
    /\ "EFO" \notin SourceNames(isa_json)
    /\ Cardinality({k \in DOMAIN report : UndeclaredSourceWarning(report[k])
                                          /\ report[k].about = "EFO"}) = 2


-----------------------------------------------------------------------------
(* Names of protocols, protocol parameters and study factors *)

\* The name of a declared entity: a protocol and a factor carry it as a
\* string, a protocol parameter as the value of its parameterName annotation.
NameOf(node, key) ==
    IF key = "parameterName" THEN Get(Get(node, key), "annotationValue") ELSE Get(node, key)

\* The declared names a name check is to return: the empty default
\* reference and the names that are not empty.
DeclaredNames(named, key) ==
    {Str("")} \cup {NameOf(named[k], key) : k \in DOMAIN named}

EmptyNames(named, key) == Cardinality({k \in DOMAIN named : NameOf(named[k], key) = Str("")})

NameWarnings(rep, msg) ==
    Cardinality({k \in DOMAIN rep : rep[k].level = "warn" /\ rep[k].msg = msg})

\* C26: once the three name checks have run, the report holds one warning for
\* each protocol, each protocol parameter and each study factor whose name is
\* empty, and the names each check returns are the empty default reference
\* and the non-empty names of the declared entities of its kind.
C26_NamesDeclared ==
    validate_pc = "object_refs" =>
        /\ NameWarnings(report, "A Protocol is missing Protocol Name")
               = EmptyNames(Protocols(isa_json), "name")
        /\ Range(_check_protocol_names(isa_json).refs)
               = DeclaredNames(Protocols(isa_json), "name")
        /\ NameWarnings(report, "A Protocol Parameter is missing Name")
               = EmptyNames(Parameters(isa_json), "parameterName")
        /\ Range(_check_protocol_parameter_names(isa_json).refs)
               = DeclaredNames(Parameters(isa_json), "parameterName")
        /\ NameWarnings(report, "A Study Factor is missing Name")
               = EmptyNames(Factors(isa_json), "factorName")
        /\ Range(_check_study_factor_names(isa_json).refs)
               = DeclaredNames(Factors(isa_json), "factorName")


-----------------------------------------------------------------------------
(* Factor values of samples *)

FactorValuesJson(doc) ==
    UNION {UNION {Range(m.factorValues) : m \in Range(st.samples)} : st \in Range(doc.studies)}

\* A free-text or numeric factor value that carries no unit.
UnitlessScalar(fv) == fv.value.kind \in {"str", "num"} /\ fv.unit = NoKey

\* Nothing of the document can fail to load but, maybe, a factor value for
\* want of a unit: there is no characteristic and no process, and every
\* factor value names a declared factor, a declared term source and, if it
\* names a unit, a unit that its study declares.
OnlyFactorValuesAtStake(doc) ==
    /\ CharacteristicsJson(doc) = {}
    /\ ProcessesJson(doc) = {}
    /\ \A st \in Range(doc.studies) :
          /\ \A d \in Range(st.characteristicCategories) \cup Range(st.unitCategories) :
                d.termSource \in TermSourceNames(doc)
          /\ \A m \in Range(st.samples) : \A fv \in Range(m.factorValues) :
                /\ fv.category \in {f.id : f \in Range(st.factors)}
                /\ fv.value.termSource \in TermSourceNames(doc)
                /\ fv.unit # NoKey => fv.unit \in {u.id : u \in Range(st.unitCategories)}
    /\ \A as \in AssaysJson(doc) :
          /\ \A d \in Range(as.characteristicCategories) \cup Range(as.unitCategories) :
                d.termSource \in TermSourceNames(doc)
          /\ Range(as.samples) \subseteq SampleIds(doc)

\* C27: a document in which nothing is at stake but factor values, some of
\* them free text or a number without unit, loads: load never raises on it,
\* and every FactorValue built holds its resolved factor.
C27_ScalarFactorValueLoads ==
    (/\ \E fv \in FactorValuesJson(isajson) : UnitlessScalar(fv)
     /\ OnlyFactorValuesAtStake(isajson)) =>
        /\ pc # "raised"
        /\ \A m \in StudyMaterialsBuilt : \A f \in Range(m.factor_values) :
               f.factor_name.kind = "StudyFactor"


-----------------------------------------------------------------------------
(* The empty term source *)

\* The declaration of the document that a category or unit object was made from.
DeclarationOf(o) ==
    LET owner == IF o.a = 0 THEN isajson.studies[o.s] ELSE isajson.studies[o.s].assays[o.a]
    IN  IF o.kind = "Unit" THEN owner.unitCategories[o.i]
        ELSE owner.characteristicCategories[o.i]

\* The category and unit annotations that are in the pools.
AnnotationsDeclared ==
    {categories_dict[id] : id \in DOMAIN categories_dict}
    \cup {units_dict[id] : id \in DOMAIN units_dict}

\* C28: every category and unit annotation that load has built from a
\* declaration whose term source is the empty string has no source, whatever
\* ontology sources the document declares.
C28_EmptyTermSourceIsNoSource ==
    \A o \in AnnotationsDeclared :
        DeclarationOf(o).termSource = "" => o.term_source = NoneObj


-----------------------------------------------------------------------------
(* Links of the processes of Study.from_dict *)

\* The second loop over the processSequence has run.
FromDictLinked == from_dict_pc \in {"assays", "reset", "loaded", "serialized"}

\* C29: once from_dict has linked the processes, a process that names a
\* declared process as its nextProcess and names no previousProcess has that
\* process as its next_process.
C29_NextWithoutPrevious ==
    FromDictLinked =>
        \A k \in DOMAIN study_data.processSequence :
            LET data == study_data.processSequence[k]
            IN  (/\ data.previousProcess = NoKey
                 /\ data.nextProcess \in {d.id : d \in Range(study_data.processSequence)}) =>
                    self_study.process_objects[data.id].next_process
                        = ProcessRef(data.nextProcess)


-----------------------------------------------------------------------------
(* The validator's object references against the loader's resolution *)

\* The document that load reads, as the tree that validate_isajson walks:
\* every declaration is a mapping with "@id" and other keys, every reference
\* a mapping with "@id" alone.
OptionalRef(key, id) == IF id = NoKey THEN <<>> ELSE << <<key, Ref(id)>> >>
Refs(ids) == List([k \in DOMAIN ids |-> Ref(ids[k])])

ValueTree(v) == IF v.kind = "annotation" THEN Annotation("", v.termSource) ELSE Str(v.kind)

ValueTrees(values) ==
    List([k \in DOMAIN values |->
             Dict(<< <<"category", Ref(values[k].category)>>,
                     <<"value", ValueTree(values[k].value)>> >>
                  \o OptionalRef("unit", values[k].unit))])

AnnotationTrees(decls) ==
    List([k \in DOMAIN decls |-> IdentifiedAnnotation(decls[k].id, "", decls[k].termSource)])

MaterialTrees(materials) ==
    List([k \in DOMAIN materials |->
             Dict(<< <<"@id", Str(materials[k].id)>>,
                     <<"characteristics", ValueTrees(materials[k].characteristics)>> >>
                  \o (IF "factorValues" \in DOMAIN materials[k]
                      THEN << <<"factorValues", ValueTrees(materials[k].factorValues)>> >>
                      ELSE <<>>))])

ProcessTrees(pjs) ==
    List([k \in DOMAIN pjs |->
             Dict(<< <<"@id", Str(pjs[k].id)>>,
                     <<"executesProtocol", Ref(pjs[k].executesProtocol)>>,
                     <<"date", Str(pjs[k].date)>>,
                     <<"inputs", Refs(pjs[k].inputs)>>,
                     <<"outputs", Refs(pjs[k].outputs)>>,
                     <<"parameterValues", ValueTrees(pjs[k].parameterValues)>> >>
                  \o OptionalRef("previousProcess", pjs[k].previousProcess)
                  \o OptionalRef("nextProcess", pjs[k].nextProcess))])

ProtocolTrees(prots) ==
    List([k \in DOMAIN prots |->
             ProtocolNode(prots[k].id, prots[k].name,
                          [q \in DOMAIN prots[k].parameters |->
                              ParameterNode(prots[k].parameters[q].id, "")])])

AssayTree(as) ==
    Dict(<< <<"filename", Str(as.filename)>>,
            <<"characteristicCategories", AnnotationTrees(as.characteristicCategories)>>,
            <<"unitCategories", AnnotationTrees(as.unitCategories)>>,
            <<"dataFiles", List([k \in DOMAIN as.dataFiles |->
                                    DataFileNode(as.dataFiles[k], "a.raw")])>>,
            <<"materials", Dict(<< <<"samples", Refs(as.samples)>>,
                                   <<"otherMaterials", MaterialTrees(as.otherMaterials)>> >>)>>,
            <<"processSequence", ProcessTrees(as.processSequence)>> >>)

StudyTree(st) ==
    Dict(<< <<"identifier", Str(st.identifier)>>,
            <<"filename", Str(st.filename)>>,
            <<"characteristicCategories", AnnotationTrees(st.characteristicCategories)>>,
            <<"unitCategories", AnnotationTrees(st.unitCategories)>>,
            <<"protocols", ProtocolTrees(st.protocols)>>,
            <<"factors", List([k \in DOMAIN st.factors |->
                                  FactorNode(st.factors[k].id, st.factors[k].factorName)])>>,
            <<"materials", Dict(<< <<"sources", MaterialTrees(st.sources)>>,
                                   <<"samples", MaterialTrees(st.samples)>> >>)>>,
            <<"processSequence", ProcessTrees(st.processSequence)>>,
            <<"assays", List([a \in DOMAIN st.assays |-> AssayTree(st.assays[a])])>> >>)

DocumentTree(doc) ==
    Dict(<< <<"ontologySourceReferences",
              List([k \in DOMAIN doc.ontologySourceReferences |->
                       OntologySourceNode(doc.ontologySourceReferences[k].name)])>>,
            <<"studies", List([s \in DOMAIN doc.studies |-> StudyTree(doc.studies[s])])>> >>)

\* The errors that the object-reference check of the validator reports.
ObjectRefErrors(doc) == _check_object_refs(doc, _collect_object_refs(doc, <<>>))

\* load has failed on a by-id reference: the identifier it could not resolve
\* is one that a reference node of the document carries.
ReferenceUnresolved ==
    pc = "raised" /\ error.key \in ReferencedIds(DocumentTree(isajson))

\* C30: on a document for which the validator reports no object-reference
\* error, load never fails to resolve a by-id reference.
C30_ValidatorAsStrictAsLoader ==
    ObjectRefErrors(DocumentTree(isajson)) = <<>> => ~ReferenceUnresolved

====
